---- MODULE Spec2Model ----
(***************************************************************************)
(* persistentwin: the topology-aware window-placement engine of            *)
(* src/src/main.rs (App::capture_topology, capture_window(s),              *)
(* restore_window(s), find_window, on_wnd_event, on_raw_event, run), over  *)
(* the two SQLite tables that run() creates, with the OS (monitors,        *)
(* windows, SetWindowPlacement) as the environment.                        *)
(*                                                                         *)
(* What the OS reports about a window (visibility, class, title, owning    *)
(* executable, placement, whether a call fails) is read afresh in every    *)
(* call, as the code does; it is an input of the action that makes the     *)
(* call.  The monitor configuration is OS state that changes on its own.   *)
(***************************************************************************)
EXTENDS Integers, Sequences, FiniteSets, TLC

(***************************************************************************)
(* Bounds of the model.                                                    *)
(***************************************************************************)
NumWindows == 2
MaxEvents == 3
MaxHooks == 2
MaxHookOps == 4

Hwnds == 1..NumWindows

(***************************************************************************)
(* Win32 constants the code names.                                         *)
(***************************************************************************)
SW_SHOWNORMAL == 1
SW_SHOWMINIMIZED == 2
SW_MAXIMIZE == 3
WPF_ASYNCWINDOWPLACEMENT == 4
WM_DISPLAYCHANGE == 126
WM_WTSSESSION_CHANGE == 689
WM_PAINT == 15
WINDOWPLACEMENT_SIZE == 44

(***************************************************************************)
(* Rect, Point, WINDOWPLACEMENT, WindowDisplay.                            *)
(***************************************************************************)
Rect(l, t, r, b) == [left |-> l, top |-> t, right |-> r, bottom |-> b]

Point(px, py) == [x |-> px, y |-> py]

\* impl From<RECT> for Rect / impl Into<RECT> for Rect: field by field.
RectFrom(r) == [top |-> r.top, bottom |-> r.bottom, right |-> r.right, left |-> r.left]

RectInto(r) == [top |-> r.top, bottom |-> r.bottom, right |-> r.right, left |-> r.left]

PointFrom(p) == [x |-> p.x, y |-> p.y]

PointInto(p) == [x |-> p.x, y |-> p.y]

WindowPlacement(fl, show, pmin, pmax, rc) ==
    [length |-> WINDOWPLACEMENT_SIZE, flags |-> fl, showCmd |-> show,
     ptMinPosition |-> pmin, ptMaxPosition |-> pmax, rcNormalPosition |-> rc]

\* impl From<WINDOWPLACEMENT> for WindowDisplay: length and flags are dropped.
WindowDisplayFrom(wp) ==
    [show |-> wp.showCmd,
     min  |-> PointFrom(wp.ptMinPosition),
     max  |-> PointFrom(wp.ptMaxPosition),
     rect |-> RectFrom(wp.rcNormalPosition)]

\* The placements GetWindowPlacement may report: a normal, a minimized and a
\* maximized window, with different geometry and different flags.
OsPlacements ==
    { WindowPlacement(0, SW_SHOWNORMAL, Point(-1, -1), Point(-1, -1),
                      Rect(100, 100, 740, 580)),
      WindowPlacement(2, SW_SHOWMINIMIZED, Point(-32000, -32000), Point(-1, -1),
                      Rect(300, 150, 1100, 750)),
      WindowPlacement(2, SW_MAXIMIZE, Point(-32000, -32000), Point(-8, -8),
                      Rect(200, 50, 900, 700)) }

(***************************************************************************)
(* BSON documents, as the sequence of their leaf values in field order.    *)
(***************************************************************************)
\* bson::to_document(&WindowDisplay): show, min{x,y}, max{x,y},
\* rect{left,top,right,bottom}.
WindowDisplayToBson(d) ==
    << d.show, d.min.x, d.min.y, d.max.x, d.max.y,
       d.rect.left, d.rect.top, d.rect.right, d.rect.bottom >>

WindowDisplayFromBson(b) ==
    [show |-> b[1],
     min  |-> [x |-> b[2], y |-> b[3]],
     max  |-> [x |-> b[4], y |-> b[5]],
     rect |-> [left |-> b[6], top |-> b[7], right |-> b[8], bottom |-> b[9]]]

RectField(r, k) ==
    CASE k = 0 -> r.left
      [] k = 1 -> r.top
      [] k = 2 -> r.right
      [] k = 3 -> r.bottom

\* bson::to_document(&Topology { monitors: rects }): the rectangles in order,
\* four fields each.
TopologyToBson(rects) ==
    [i \in 1..(4 * Len(rects)) |-> RectField(rects[((i - 1) \div 4) + 1], (i - 1) % 4)]

(***************************************************************************)
(* Monitors (monitor.rs).                                                  *)
(***************************************************************************)
MonitorInfo(p, rc, wk, nm) == [primary |-> p, rect |-> rc, work |-> wk, name |-> nm]

MonWide == MonitorInfo(TRUE, Rect(0, 0, 1920, 1080), Rect(0, 0, 1920, 1040), "DISPLAY1")

MonSmall == MonitorInfo(TRUE, Rect(0, 0, 1280, 1024), Rect(0, 0, 1280, 984), "DISPLAY1")

MonSecond == MonitorInfo(FALSE, Rect(1920, 0, 3840, 1080), Rect(1920, 0, 3840, 1080), "DISPLAY2")

\* The monitor configurations the OS may be in, each in enumeration order.
DisplayConfigs == { <<MonWide, MonSecond>>, <<MonSmall>> }

\* MonWide with the taskbar moved to the left edge, renamed, and no longer
\* the primary monitor: the same rectangle, nothing else the same.
MonWideDocked ==
    MonitorInfo(FALSE, Rect(0, 0, 1920, 1080), Rect(60, 0, 1920, 1080), "DISPLAY3")

\* The configurations capture_topology is driven through on its own: those
\* of DisplayConfigs, one with the same rectangles and other work areas,
\* names and primary flags, one with the same monitors enumerated in the
\* other order, and one with the first monitor alone.
TopologyConfigs ==
    DisplayConfigs \cup { <<MonWideDocked, MonSecond>>, <<MonSecond, MonWide>>, <<MonWide>> }

\* The outcomes of monitor::monitors() and of HMONITOR::info() in one
\* capture_topology call.
TopologyFaults == {"none", "enum_monitors", "monitor_info"}

(***************************************************************************)
(* Table topology (id INTEGER PRIMARY KEY, data BLOB UNIQUE NOT NULL).     *)
(***************************************************************************)
MaxOf(S) == CHOOSE m \in S : \A n \in S : n <= m

NextRowId(tbl) == IF tbl = {} THEN 1 ELSE MaxOf({r.id : r \in tbl}) + 1

\* A plain INSERT, on a table whose data column is not UNIQUE.
InsertTopology(tbl, data) == tbl \cup {[id |-> NextRowId(tbl), data |-> data]}

\* INSERT OR IGNORE INTO topology (data) VALUES (:topology)
InsertOrIgnoreTopology(tbl, data) ==
    IF \E r \in tbl : r.data = data
    THEN tbl
    ELSE tbl \cup {[id |-> NextRowId(tbl), data |-> data]}

\* SELECT rowid FROM topology WHERE data=:topology
SelectRowId(tbl, data) == (CHOOSE r \in tbl : r.data = data).id

\* The work areas in place of the monitor rectangles.
MonitorWorkAreas(mons) == [i \in 1..Len(mons) |-> mons[i].work]

\* The monitor rectangles, in enumeration order.
MonitorRects(mons) == [i \in 1..Len(mons) |-> mons[i].rect]

\* The tail of App::capture_topology: the row id of the data in the table
\* after the insert.
topology_row(ins, data) == [ok |-> TRUE, id |-> SelectRowId(ins, data), topology |-> ins]

\* capture_topology persisting the rectangles collected before the info
\* query that failed.
capture_topology_partial(tbl, mons, fault) ==
    CASE fault = "enum_monitors" -> [ok |-> FALSE, id |-> 0, topology |-> tbl]
      [] fault = "monitor_info" ->
           [ok |-> FALSE, id |-> 0,
            topology |-> InsertOrIgnoreTopology(
                tbl, TopologyToBson(SubSeq(MonitorRects(mons), 1, Len(mons) - 1)))]
      [] OTHER ->
           topology_row(InsertOrIgnoreTopology(tbl, TopologyToBson(MonitorRects(mons))),
                        TopologyToBson(MonitorRects(mons)))

\* App::capture_topology: [ok, id, topology].
capture_topology(tbl, mons, fault) ==
    IF fault # "none"
    THEN [ok |-> FALSE, id |-> 0, topology |-> tbl]
    ELSE topology_row(InsertOrIgnoreTopology(tbl, TopologyToBson(MonitorRects(mons))),
                      TopologyToBson(MonitorRects(mons)))

(***************************************************************************)
(* Table appwindow (path TEXT, topology INTEGER, class STRING, title TEXT, *)
(* disp BLOB, PRIMARY KEY (path, topology, class, title)).                 *)
(*                                                                         *)
(* A class name is a sequence of characters.  In SQLite a column declared  *)
(* STRING has NUMERIC affinity: a text value that is a well-formed integer *)
(* literal is stored, and compared, as that integer.  TEXT columns keep    *)
(* the text.                                                               *)
(***************************************************************************)
DigitChars == <<"0", "1", "2", "3", "4", "5", "6", "7", "8", "9">>

IsDigit(c) == \E i \in 1..Len(DigitChars) : DigitChars[i] = c

DigitValue(c) == (CHOOSE i \in 1..Len(DigitChars) : DigitChars[i] = c) - 1

IsIntegerLiteral(s) == Len(s) > 0 /\ \A i \in 1..Len(s) : IsDigit(s[i])

RECURSIVE IntegerValue(_)
IntegerValue(s) ==
    IF s = <<>> THEN 0
    ELSE IntegerValue(SubSeq(s, 1, Len(s) - 1)) * 10 + DigitValue(s[Len(s)])

TextValue(s) == [type |-> "text", int |-> 0, text |-> s]

\* The value a NUMERIC-affinity column holds for the bound text s.
NumericAffinity(s) ==
    IF IsIntegerLiteral(s)
    THEN [type |-> "integer", int |-> IntegerValue(s), text |-> <<>>]
    ELSE TextValue(s)

\* Column class is declared STRING.
ClassColumn(s) == NumericAffinity(s)

ClassNotepad == <<"N", "o", "t", "e", "p", "a", "d">>

ClassOne == <<"1">>

ClassZeroOne == <<"0", "1">>

\* The class names, titles and executable paths windows may have.
Classes == {ClassNotepad, ClassOne, ClassZeroOne}

Titles == {"Untitled - Notepad"}

Paths == {"C:\\Windows\\notepad.exe"}

PrimaryKey(r) == <<r.path, r.topology, r.class, r.title>>

\* The whole table replaced by the new row.
ReplaceAll(tbl, path, topo, class, title, disp) ==
    {[path |-> path, topology |-> topo, class |-> ClassColumn(class),
      title |-> title, disp |-> disp]}

\* REPLACE INTO appwindow (path, topology, class, title, disp) VALUES (...)
ReplaceInto(tbl, path, topo, class, title, disp) ==
    LET row == [path |-> path, topology |-> topo, class |-> ClassColumn(class),
                title |-> title, disp |-> disp]
    IN  {r \in tbl : PrimaryKey(r) # PrimaryKey(row)} \cup {row}

\* The same query without the topology column.
SelectDispAnyTopology(tbl, topo, path, class, title) ==
    {r \in tbl : r.class = ClassColumn(class) /\ r.path = path /\ r.title = title}

\* SELECT disp FROM appwindow WHERE topology=:topology AND class=:class AND
\* path=:path AND title=:title
SelectDisp(tbl, topo, path, class, title) ==
    {r \in tbl : r.topology = topo /\ r.class = ClassColumn(class)
                 /\ r.path = path /\ r.title = title}

\* App::find_window: <<>> is None, <<d>> is Some(d).
find_window(tbl, topo, path, class, title) ==
    LET rows == SelectDisp(tbl, topo, path, class, title)
    IN  IF rows = {} THEN <<>>
        ELSE <<WindowDisplayFromBson((CHOOSE r \in rows : TRUE).disp)>>

(***************************************************************************)
(* What the OS answers about one window during one call (window.rs,        *)
(* process.rs).  resolve is the joint outcome of class_name, title,        *)
(* placement, owner, process::open and full_image_name: "error" when one   *)
(* of them returns Err (each is followed by `?`), "invalid_utf16" when     *)
(* String::from_utf16(..).unwrap() in class_name or title meets an         *)
(* unpaired surrogate, "ok" otherwise.  set_ok[k] is the result of the     *)
(* k-th SetWindowPlacement call made on the window.                        *)
(***************************************************************************)
ResolveOutcomes == {"ok", "error", "invalid_utf16"}

SetOutcomes == {<<TRUE, TRUE>>, <<TRUE, FALSE>>, <<FALSE, FALSE>>}

AnyClass == ClassNotepad

AnyTitle == CHOOSE t \in Titles : TRUE

AnyPath == CHOOSE p \in Paths : TRUE

AnyPlacement == CHOOSE wp \in OsPlacements : wp.showCmd = SW_SHOWNORMAL

Obs(vis, top, res, cls, ttl, pth, wp, oks) ==
    [visible |-> vis, top_level |-> top, resolve |-> res, class |-> cls,
     title |-> ttl, path |-> pth, placement |-> wp, set_ok |-> oks]

\* The placements a window of class c is observed with: every class is met
\* normal and maximized, one class minimized too.
PlacementsOf(c) ==
    IF c = AnyClass THEN OsPlacements
    ELSE {wp \in OsPlacements : wp.showCmd # SW_SHOWMINIMIZED}

\* What capture_window can meet: the fields it never reads are fixed.
CaptureObs ==
    {Obs(FALSE, TRUE, "ok", AnyClass, AnyTitle, AnyPath, AnyPlacement, <<TRUE, TRUE>>),
     Obs(TRUE, FALSE, "ok", AnyClass, AnyTitle, AnyPath, AnyPlacement, <<TRUE, TRUE>>),
     Obs(TRUE, TRUE, "error", AnyClass, AnyTitle, AnyPath, AnyPlacement, <<TRUE, TRUE>>),
     Obs(TRUE, TRUE, "invalid_utf16", AnyClass, AnyTitle, AnyPath, AnyPlacement, <<TRUE, TRUE>>),
     Obs(FALSE, TRUE, "invalid_utf16", AnyClass, AnyTitle, AnyPath, AnyPlacement, <<TRUE, TRUE>>),
     Obs(TRUE, FALSE, "error", AnyClass, AnyTitle, AnyPath, AnyPlacement, <<TRUE, TRUE>>)}
    \cup UNION {{Obs(TRUE, TRUE, "ok", c, t, p, wp, <<TRUE, TRUE>>) :
                    t \in Titles, p \in Paths, wp \in PlacementsOf(c)} : c \in Classes}

\* What restore_window can meet.
RestoreObs ==
    {Obs(FALSE, TRUE, "ok", AnyClass, AnyTitle, AnyPath, AnyPlacement, <<TRUE, TRUE>>),
     Obs(TRUE, TRUE, "error", AnyClass, AnyTitle, AnyPath, AnyPlacement, <<TRUE, TRUE>>),
     Obs(TRUE, TRUE, "invalid_utf16", AnyClass, AnyTitle, AnyPath, AnyPlacement, <<TRUE, TRUE>>),
     Obs(TRUE, FALSE, "ok", AnyClass, AnyTitle, AnyPath, AnyPlacement, <<TRUE, TRUE>>)}
    \cup {Obs(TRUE, TRUE, "ok", c, t, p, AnyPlacement, oks) :
            c \in Classes, t \in Titles, p \in Paths, oks \in SetOutcomes}

\* window::windows(): the handles EnumWindows reports.  Handles are numbered
\* in the order of the enumeration.
EnumeratedWindows == [i \in 1..NumWindows |-> i]

ResultOk == "Ok"

ResultErr == "Err"

PanicNoTopology == "panic: no active topology"

PanicUtf16 == "panic: from_utf16 unwrap"

PanicEnumWindows == "panic: restore_windows unwrap"

IsPanic(res) == res \in {PanicNoTopology, PanicUtf16, PanicEnumWindows}

(***************************************************************************)
(* App::capture_window: [result, appwindow, writes].  active = 0 is None;  *)
(* writes are the REPLACE statements executed, with their parameters.      *)
(***************************************************************************)
Write(hwnd, topo, path, class, title, disp) ==
    [hwnd |-> hwnd, topology |-> topo, path |-> path, class |-> class,
     title |-> title, disp |-> disp]

\* The REPLACE of capture_window, with the serialized WindowDisplay.
capture_write(active, tbl, hwnd, o, rect) ==
    [result |-> ResultOk,
     appwindow |-> ReplaceInto(tbl, o.path, active, o.class, o.title, rect),
     writes |-> <<Write(hwnd, active, o.path, o.class, o.title, rect)>>]

\* capture_window resolving class, title, placement and owner before it
\* looks at the eligibility of the window.
capture_window_eager(active, tbl, hwnd, o) ==
    IF active = 0
    THEN [result |-> PanicNoTopology, appwindow |-> tbl, writes |-> <<>>]
    ELSE CASE o.resolve = "invalid_utf16" ->
                [result |-> PanicUtf16, appwindow |-> tbl, writes |-> <<>>]
           [] o.resolve = "error" ->
                [result |-> ResultErr, appwindow |-> tbl, writes |-> <<>>]
           [] OTHER ->
                IF o.visible /\ o.top_level
                THEN capture_write(active, tbl, hwnd, o,
                                   WindowDisplayToBson(WindowDisplayFrom(o.placement)))
                ELSE [result |-> ResultOk, appwindow |-> tbl, writes |-> <<>>]

capture_window(active, tbl, hwnd, o) ==
    IF active = 0
    THEN [result |-> PanicNoTopology, appwindow |-> tbl, writes |-> <<>>]
    ELSE IF o.visible /\ o.top_level
         THEN CASE o.resolve = "invalid_utf16" ->
                     [result |-> PanicUtf16, appwindow |-> tbl, writes |-> <<>>]
                [] o.resolve = "error" ->
                     [result |-> ResultErr, appwindow |-> tbl, writes |-> <<>>]
                [] OTHER ->
                     capture_write(active, tbl, hwnd, o,
                                   WindowDisplayToBson(WindowDisplayFrom(o.placement)))
         ELSE [result |-> ResultOk, appwindow |-> tbl, writes |-> <<>>]

\* The loop of App::capture_windows from the i-th handle on: an Err of one
\* window is logged and the loop goes on; a panic ends it.  visited is the
\* number of handles whose capture_window returned.
RECURSIVE capture_loop(_, _, _, _, _)
capture_rest(r, rest) ==
    [result |-> rest.result, appwindow |-> rest.appwindow,
     writes |-> r.writes \o rest.writes, visited |-> rest.visited]

capture_next(r, active, handles, obs, i) ==
    IF IsPanic(r.result)
    THEN [result |-> r.result, appwindow |-> r.appwindow, writes |-> r.writes,
          visited |-> i - 1]
    ELSE capture_rest(r, capture_loop(active, r.appwindow, handles, obs, i + 1))

capture_loop(active, tbl, handles, obs, i) ==
    IF i > Len(handles)
    THEN [result |-> ResultOk, appwindow |-> tbl, writes |-> <<>>, visited |-> i - 1]
    ELSE capture_next(capture_window(active, tbl, handles[i], obs[handles[i]]),
                      active, handles, obs, i)

\* App::capture_windows.
capture_windows(active, tbl, enum_ok, handles, obs) ==
    IF ~enum_ok
    THEN [result |-> ResultErr, appwindow |-> tbl, writes |-> <<>>, visited |-> 0]
    ELSE capture_loop(active, tbl, handles, obs, 1)

(***************************************************************************)
(* App::restore_window: [result, calls, lookups].  calls are the           *)
(* SetWindowPlacement calls made, lookups the find_window queries.         *)
(***************************************************************************)
Call(hwnd, wp, ok) == [hwnd |-> hwnd, placement |-> wp, ok |-> ok]

Lookup(hwnd, topo, path, class, title) ==
    [hwnd |-> hwnd, topology |-> topo, path |-> path, class |-> class, title |-> title]

\* wnd_placement with the two icon positions exchanged.
RestorePlacementSwapped(rp) ==
    [length |-> WINDOWPLACEMENT_SIZE, flags |-> WPF_ASYNCWINDOWPLACEMENT,
     showCmd |-> rp.show, ptMinPosition |-> PointInto(rp.max),
     ptMaxPosition |-> PointInto(rp.min), rcNormalPosition |-> RectInto(rp.rect)]

\* let wnd_placement = WINDOWPLACEMENT { .. }
RestorePlacement(rp) ==
    [length |-> WINDOWPLACEMENT_SIZE, flags |-> WPF_ASYNCWINDOWPLACEMENT,
     showCmd |-> rp.show, ptMinPosition |-> PointInto(rp.min),
     ptMaxPosition |-> PointInto(rp.max), rcNormalPosition |-> RectInto(rp.rect)]

\* One set_placement call whatever the stored show-state.
apply_placement_once(hwnd, wp, oks) ==
    [result |-> IF oks[1] THEN ResultOk ELSE ResultErr,
     calls |-> <<Call(hwnd, wp, oks[1])>>]

\* The normal-then-final pair of calls whatever the stored show-state.
apply_placement_two_step(hwnd, wp, oks) ==
    IF ~oks[1]
    THEN [result |-> ResultErr,
          calls |-> <<Call(hwnd, [wp EXCEPT !.showCmd = SW_SHOWNORMAL], FALSE)>>]
    ELSE [result |-> IF oks[2] THEN ResultOk ELSE ResultErr,
          calls |-> <<Call(hwnd, [wp EXCEPT !.showCmd = SW_SHOWNORMAL], TRUE),
                      Call(hwnd, wp, oks[2])>>]

\* The match on the stored show-state and the set_placement calls after it.
apply_placement(hwnd, wp, oks) ==
    IF wp.showCmd = SW_MAXIMIZE
    THEN IF ~oks[1]
         THEN [result |-> ResultErr,
               calls |-> <<Call(hwnd, [wp EXCEPT !.showCmd = SW_SHOWNORMAL], FALSE)>>]
         ELSE [result |-> IF oks[2] THEN ResultOk ELSE ResultErr,
               calls |-> <<Call(hwnd, [wp EXCEPT !.showCmd = SW_SHOWNORMAL], TRUE),
                           Call(hwnd, wp, oks[2])>>]
    ELSE [result |-> IF oks[1] THEN ResultOk ELSE ResultErr,
          calls |-> <<Call(hwnd, wp, oks[1])>>]

\* if let Some(restore_placement) = self.find_window(..) { .. }
restore_found(found, look, hwnd, oks) ==
    IF found = <<>>
    THEN [result |-> ResultOk, calls |-> <<>>, lookups |-> look]
    ELSE [lookups |-> look] @@ apply_placement(hwnd, RestorePlacement(found[1]), oks)

\* restore_window with the eligibility test of capture_window.
restore_window_top_level(active, tbl, hwnd, o) ==
    IF active = 0
    THEN [result |-> PanicNoTopology, calls |-> <<>>, lookups |-> <<>>]
    ELSE IF o.visible /\ o.top_level
         THEN CASE o.resolve = "invalid_utf16" ->
                     [result |-> PanicUtf16, calls |-> <<>>, lookups |-> <<>>]
                [] o.resolve = "error" ->
                     [result |-> ResultErr, calls |-> <<>>, lookups |-> <<>>]
                [] OTHER ->
                     restore_found(find_window(tbl, active, o.path, o.class, o.title),
                                   <<Lookup(hwnd, active, o.path, o.class, o.title)>>,
                                   hwnd, o.set_ok)
         ELSE [result |-> ResultOk, calls |-> <<>>, lookups |-> <<>>]

restore_window(active, tbl, hwnd, o) ==
    IF active = 0
    THEN [result |-> PanicNoTopology, calls |-> <<>>, lookups |-> <<>>]
    ELSE IF o.visible
         THEN CASE o.resolve = "invalid_utf16" ->
                     [result |-> PanicUtf16, calls |-> <<>>, lookups |-> <<>>]
                [] o.resolve = "error" ->
                     [result |-> ResultErr, calls |-> <<>>, lookups |-> <<>>]
                [] OTHER ->
                     restore_found(find_window(tbl, active, o.path, o.class, o.title),
                                   <<Lookup(hwnd, active, o.path, o.class, o.title)>>,
                                   hwnd, o.set_ok)
         ELSE [result |-> ResultOk, calls |-> <<>>, lookups |-> <<>>]

\* The loop of App::restore_windows from the i-th handle on: the result of
\* each restore_window is dropped; a panic ends the loop.
RECURSIVE restore_loop(_, _, _, _, _)
restore_rest(r, rest) ==
    [result |-> rest.result, calls |-> r.calls \o rest.calls,
     lookups |-> r.lookups \o rest.lookups, visited |-> rest.visited]

restore_next(r, active, tbl, handles, obs, i) ==
    IF IsPanic(r.result)
    THEN [result |-> r.result, calls |-> r.calls, lookups |-> r.lookups,
          visited |-> i - 1]
    ELSE restore_rest(r, restore_loop(active, tbl, handles, obs, i + 1))

restore_loop(active, tbl, handles, obs, i) ==
    IF i > Len(handles)
    THEN [result |-> ResultOk, calls |-> <<>>, lookups |-> <<>>, visited |-> i - 1]
    ELSE restore_next(restore_window(active, tbl, handles[i], obs[handles[i]]),
                      active, tbl, handles, obs, i)

\* App::restore_windows.
restore_windows(active, tbl, enum_ok, handles, obs) ==
    IF ~enum_ok
    THEN [result |-> ResultErr, calls |-> <<>>, lookups |-> <<>>, visited |-> 0]
    ELSE restore_loop(active, tbl, handles, obs, 1)

(***************************************************************************)
(* The handlers.                                                           *)
(***************************************************************************)
\* The assignment left out: active_topology stays None.
keep_active_topology(topo_id) == 0

\* app.data.borrow_mut().active_topology = Some(topo_id)
set_active_topology(topo_id) == topo_id

\* App::on_wnd_event: the result of capture_window is dropped.
on_wnd_event(active, tbl, hwnd, o) == capture_window(active, tbl, hwnd, o)

\* self.restore_windows().unwrap(), under the topology just made active.
display_restored(now, ins, r) ==
    [active |-> now, topology |-> ins, captured |-> TRUE,
     result |-> IF r.result = ResultErr THEN PanicEnumWindows
                ELSE IF IsPanic(r.result) THEN r.result
                ELSE "None",
     calls |-> r.calls, lookups |-> r.lookups, visited |-> r.visited]

\* The arm with restore_windows running before the assignment, under the
\* topology that was active when the message arrived.
display_change_stale(ct, active, tbl, enum_ok, handles, obs) ==
    IF ~ct.ok
    THEN [active |-> active, topology |-> ct.topology, captured |-> FALSE,
          result |-> "None", calls |-> <<>>, lookups |-> <<>>, visited |-> 0]
    ELSE display_restored(set_active_topology(ct.id), ct.topology,
                          restore_windows(active, tbl, enum_ok, handles, obs))

\* The arm forgetting the active topology when capture_topology fails.
display_change_reset(ct, active, tbl, enum_ok, handles, obs) ==
    IF ~ct.ok
    THEN [active |-> 0, topology |-> ct.topology, captured |-> FALSE,
          result |-> "None", calls |-> <<>>, lookups |-> <<>>, visited |-> 0]
    ELSE display_restored(set_active_topology(ct.id), ct.topology,
                          restore_windows(set_active_topology(ct.id), tbl, enum_ok,
                                          handles, obs))

\* The WM_DISPLAYCHANGE arm after capture_topology has returned ct.
display_change(ct, active, tbl, enum_ok, handles, obs) ==
    IF ~ct.ok
    THEN [active |-> active, topology |-> ct.topology, captured |-> FALSE,
          result |-> "None", calls |-> <<>>, lookups |-> <<>>, visited |-> 0]
    ELSE display_restored(set_active_topology(ct.id), ct.topology,
                          restore_windows(set_active_topology(ct.id), tbl, enum_ok,
                                          handles, obs))

\* on_raw_event with the session-change message handled as a display
\* change.
on_raw_event_session(active, topo, tbl, msg, mons, fault, enum_ok, handles, obs) ==
    IF msg \in {WM_DISPLAYCHANGE, WM_WTSSESSION_CHANGE}
    THEN display_change(capture_topology(topo, mons, fault), active, tbl, enum_ok,
                        handles, obs)
    ELSE [active |-> active, topology |-> topo, captured |-> FALSE,
          result |-> "None", calls |-> <<>>, lookups |-> <<>>, visited |-> 0]

\* App::on_raw_event: [active, topology, captured, result, calls, lookups,
\* visited].  captured tells whether capture_topology returned Ok; the
\* result is the handler's None, or the panic that ends the process.
on_raw_event(active, topo, tbl, msg, mons, fault, enum_ok, handles, obs) ==
    IF msg = WM_DISPLAYCHANGE
    THEN display_change(capture_topology(topo, mons, fault), active, tbl, enum_ok,
                        handles, obs)
    ELSE [active |-> active, topology |-> topo, captured |-> FALSE,
          result |-> "None", calls |-> <<>>, lookups |-> <<>>, visited |-> 0]

(***************************************************************************)
(* hook.rs.  EVENT_TABLE is thread_local: one table per thread, from the   *)
(* hook token SetWinEventHook returned to the EventHook holding the        *)
(* callback.  A callback is named by the call that supplied it.            *)
(***************************************************************************)
MainThread == "main"

Threads == {MainThread, "worker"}

\* SetWinEventHook returns 0 when it installs no hook.
NullHook == 0

HookTokens == 1..MaxHooks

EVENT_SYSTEM_MOVESIZESTART == 10
EVENT_OBJECT_NAMECHANGE == 32780

WinEvents == {EVENT_SYSTEM_MOVESIZESTART, EVENT_OBJECT_NAMECHANGE}

\* What SetWinEventHook may return while the OS holds the hooks os_hooks: a
\* token no live hook has, or 0.
SetWinEventHook(os_hooks) == (HookTokens \ os_hooks) \cup {NullHook}

\* The OS hooks after SetWinEventHook has returned token.
Installed(os_hooks, token) == IF token = NullHook THEN os_hooks ELSE os_hooks \cup {token}

\* insert keeping the entry that is already there.
TableInsertIfAbsent(tab, token, cb) == tab @@ (token :> cb)

\* tab.borrow_mut().insert(hnd.0 .0, EventHook { cb }): an entry under the
\* same token is replaced.
TableInsert(tab, token, cb) == (token :> cb) @@ tab

\* EventHook::register, once SetWinEventHook has returned token: the entry
\* goes into the table of the calling thread.
register(table, thread, token, cb) ==
    [table EXCEPT ![thread] = TableInsert(table[thread], token, cb)]

\* The insert loop of register_ranges over the tokens returned.
RECURSIVE insert_ranges(_, _, _)
insert_ranges(tab, tokens, cb) ==
    IF tokens = <<>> THEN tab
    ELSE insert_ranges(TableInsert(tab, Head(tokens), cb), Tail(tokens), cb)

\* register_ranges recording the first token only.
register_ranges_first(table, thread, tokens, cb) ==
    [table EXCEPT ![thread] = TableInsert(table[thread], Head(tokens), cb)]

\* EventHook::register_ranges, once SetWinEventHook has returned tokens, one
\* per range: every entry holds a clone of the one Rc.
register_ranges(table, thread, tokens, cb) ==
    [table EXCEPT ![thread] = insert_ranges(table[thread], tokens, cb)]

\* unregister also removing the entry from the table of the calling thread.
unregister_pruning(os_hooks, table, thread, token) ==
    [hooks |-> os_hooks \ {token},
     event_table |-> [table EXCEPT ![thread] =
                         [k \in DOMAIN table[thread] \ {token} |-> table[thread][k]]]]

\* unregister also emptying the table of the calling thread.
unregister_clearing(os_hooks, table, thread, token) ==
    [hooks |-> os_hooks \ {token}, event_table |-> [table EXCEPT ![thread] = <<>>]]

\* EventHook::unregister: UnhookWinEvent(handle.0), nothing else.  The OS
\* hooks and the tables after it.
unregister(os_hooks, table, thread, token) ==
    [hooks |-> os_hooks \ {token}, event_table |-> table]

\* for hook in evt_hooks { EventHook::unregister(hook); }
RECURSIVE unregister_each(_, _, _, _)
unregister_next(r, thread, tokens) ==
    unregister_each(r.hooks, r.event_table, thread, tokens)

unregister_each(os_hooks, table, thread, tokens) ==
    IF tokens = <<>> THEN [hooks |-> os_hooks, event_table |-> table]
    ELSE unregister_next(unregister(os_hooks, table, thread, Head(tokens)), thread,
                         Tail(tokens))

Invocation(cb, event, hwnd) == [cb |-> cb, event |-> event, hwnd |-> hwnd]

\* event_cb looking the token up in the tables of all threads.
event_cb_any_thread(table, thread, token, event, hwnd) ==
    IF \E t \in Threads : token \in DOMAIN table[t]
    THEN <<Invocation(table[CHOOSE t \in Threads : token \in DOMAIN table[t]][token],
                      event, hwnd)>>
    ELSE <<>>

\* event_cb on a thread: the callbacks invoked, with their arguments.
event_cb(table, thread, token, event, hwnd) ==
    IF token \in DOMAIN table[thread]
    THEN <<Invocation(table[thread][token], event, hwnd)>>
    ELSE <<>>

\* hook_thread, once the thread has received tokens from SetWinEventHook
\* and live is the set of hooks the OS holds.
HookThread(ht, live, thread, tokens) ==
    [h \in live |-> IF \E i \in DOMAIN tokens : tokens[i] = h THEN thread ELSE ht[h]]

\* The strong count of the Rc of callback cb: the table entries holding it.
RcCount(table, cb) ==
    Cardinality({p \in Threads \X (HookTokens \cup {NullHook}) :
                    p[2] \in DOMAIN table[p[1]] /\ table[p[1]][p[2]] = cb})

\* registered, once a registration on thread has returned tokens.
RECURSIVE Registered(_, _, _, _)
Registered(reg, thread, tokens, cb) ==
    IF tokens = <<>> THEN reg
    ELSE Registered((<<thread, Head(tokens)>> :> cb) @@ reg, thread, Tail(tokens), cb)

(***************************************************************************)
(* State.                                                                  *)
(***************************************************************************)
VARIABLES
    pc,               \* where run() is: "run", "topology", "captured", "bound",
                      \* "dispatch" (waiting in the message loop), "handled" (a
                      \* handler has returned), or ended: "failed", "panicked",
                      \* "exited"
    active_topology,  \* AppData::active_topology, 0 for None
    topology,         \* table topology
    appwindow,        \* table appwindow
    raw_handler,      \* whether the raw event handler is bound
    event_table,      \* EVENT_TABLE: thread -> (hook token -> callback)
    hooks,            \* the tokens of the WinEvent hooks the OS holds
    monitors,         \* the monitors the OS enumerates now
    events,           \* notifications dispatched so far
    last,             \* the last operation: its result and the calls it made
    captured,         \* history: (topology, path, class, title) -> latest capture
    issued,           \* history: the (data, id) of each capture_topology call that
                      \* returned Ok, in call order
    registered,       \* history: (thread, token) -> the callback of the latest
                      \* registration on that thread that returned the token
    hook_thread,      \* live OS hook token -> the thread that called
                      \* SetWinEventHook for it, the one the OS notifies
    borrows           \* thread -> the borrow flag of the RefCell of its
                      \* EVENT_TABLE: the number of shared borrows held

vars == <<pc, active_topology, topology, appwindow, raw_handler, event_table, hooks,
          monitors, events, last, captured, issued, registered, hook_thread,
          borrows>>

Op(name, res, st, vis, cs, ls, ws) ==
    [op |-> name, result |-> res, status |-> st, visited |-> vis,
     calls |-> cs, lookups |-> ls, writes |-> ws]

\* What each handle of a pass met: the windows after a panic were never read.
CaptureStatus(o) ==
    IF ~o.visible THEN "invisible"
    ELSE IF ~o.top_level THEN "not_top_level"
    ELSE o.resolve

\* A restore never reads is_top_level: the log keeps it apart from "ok" only
\* so that the windows restored although not top-level can be told.
RestoreStatus(o) ==
    IF ~o.visible THEN "invisible"
    ELSE IF o.resolve = "ok" /\ ~o.top_level THEN "ok_not_top_level"
    ELSE o.resolve

PassStatus(handles, obs, visited, res, capturing) ==
    [i \in 1..Len(handles) |->
        IF i <= visited \/ (i = visited + 1 /\ res = PanicUtf16)
        THEN IF capturing THEN CaptureStatus(obs[handles[i]])
             ELSE RestoreStatus(obs[handles[i]])
        ELSE "unvisited"]

\* The placement of a window as the OS reported it, field by field.
Observed(wp) ==
    [show |-> wp.showCmd, min |-> wp.ptMinPosition, max |-> wp.ptMaxPosition,
     rect |-> wp.rcNormalPosition]

Key(topo, path, class, title) == <<topo, path, class, title>>

\* captured, once the window observed as o has been through a capture under topo.
CapturedWith(cap, topo, o) ==
    IF CaptureStatus(o) = "ok"
    THEN (Key(topo, o.path, o.class, o.title) :> Observed(o.placement)) @@ cap
    ELSE cap

\* captured after the first n handles of a capture pass under topology topo.
RECURSIVE CapturedAfter(_, _, _, _, _)
CapturedAfter(cap, topo, handles, obs, n) ==
    IF n = 0 THEN cap
    ELSE CapturedWith(CapturedAfter(cap, topo, handles, obs, n - 1), topo,
                      obs[handles[n]])

\* issued, once a capture_topology call has returned r.
Issued(iss, r, mons) ==
    IF r.ok
    THEN Append(iss, [data |-> TopologyToBson(MonitorRects(mons)), id |-> r.id,
                      monitors |-> mons])
    ELSE iss

Alive == pc \in {"run", "topology", "captured", "bound", "dispatch"}

Idle == Op("dispatch_thread_events", ResultOk, <<>>, 0, <<>>, <<>>, <<>>)

Hidden == Obs(FALSE, TRUE, "ok", AnyClass, AnyTitle, AnyPath, AnyPlacement, <<TRUE, TRUE>>)

Init ==
    /\ pc = "run"
    /\ active_topology = 0
    /\ topology = {}
    /\ appwindow = {}
    /\ raw_handler = FALSE
    /\ event_table = [t \in Threads |-> <<>>]
    /\ hooks = {}
    /\ monitors \in DisplayConfigs
    /\ events = 0
    /\ last = Op("init", ResultOk, <<>>, 0, <<>>, <<>>, <<>>)
    /\ captured = <<>>
    /\ issued = <<>>
    /\ registered = <<>>
    /\ hook_thread = <<>>
    /\ borrows = [t \in Threads |-> 0]

(***************************************************************************)
(* run(): the steps of startup, in program order.                          *)
(***************************************************************************)
\* The `?` left out: run() goes on whatever the call returned.
Unchecked(ok, next) == next

\* The `?` after a call of run(): an Err makes run() return it at once.
Try(ok, next) == IF ok THEN next ELSE "failed"

\* let topo_id = app.capture_topology()?; active_topology = Some(topo_id)
CaptureTopologyStep(ct) ==
    /\ topology' = ct.topology
    /\ active_topology' = IF ct.ok THEN set_active_topology(ct.id) ELSE active_topology
    /\ pc' = Try(ct.ok, "topology")
    /\ issued' = Issued(issued, ct, monitors)
    /\ last' = Op("capture_topology", IF ct.ok THEN ResultOk ELSE ResultErr,
                  <<>>, 0, <<>>, <<>>, <<>>)

RunCaptureTopology ==
    /\ pc = "run"
    /\ \E fault \in TopologyFaults :
         CaptureTopologyStep(capture_topology(topology, monitors, fault))
    /\ UNCHANGED <<appwindow, raw_handler, event_table, hooks, monitors, events, captured,
                   registered,
                   hook_thread,
                   borrows>>

\* app.capture_windows()?
CaptureWindowsStep(r, enum_ok, handles, obs) ==
    /\ appwindow' = r.appwindow
    /\ pc' = IF IsPanic(r.result) THEN "panicked"
             ELSE Try(r.result # ResultErr, "captured")
    /\ captured' = CapturedAfter(captured, active_topology, handles, obs, r.visited)
    /\ last' = Op("capture_windows", r.result,
                  IF enum_ok THEN PassStatus(handles, obs, r.visited, r.result, TRUE)
                  ELSE <<>>,
                  r.visited, <<>>, <<>>, r.writes)

RunCaptureWindows ==
    /\ pc = "topology"
    /\ \/ CaptureWindowsStep(
              capture_windows(active_topology, appwindow, FALSE, EnumeratedWindows,
                              [h \in Hwnds |-> Hidden]),
              FALSE, EnumeratedWindows, [h \in Hwnds |-> Hidden])
       \/ \E obs \in [Hwnds -> CaptureObs] :
            CaptureWindowsStep(
              capture_windows(active_topology, appwindow, TRUE, EnumeratedWindows, obs),
              TRUE, EnumeratedWindows, obs)
    /\ UNCHANGED <<active_topology, topology, raw_handler, event_table, hooks,
                   monitors, events, issued,
                   registered,
                   hook_thread,
                   borrows>>

\* let evt_hooks = EventHook::register_ranges(..): the OS installs the two
\* hooks and names them 1 and 2.
evt_hooks == <<1, 2>>

\* nwg::bind_raw_event_handler(..)?
RunBindRawHandler ==
    /\ pc = "captured"
    /\ \E ok \in BOOLEAN :
         /\ raw_handler' = ok
         /\ pc' = Try(ok, "bound")
         /\ last' = Op("bind_raw_event_handler", IF ok THEN ResultOk ELSE ResultErr,
                       <<>>, 0, <<>>, <<>>, <<>>)
    /\ UNCHANGED <<active_topology, topology, appwindow, event_table, hooks, monitors,
                   events, captured, issued,
                   registered,
                   hook_thread,
                   borrows>>

\* EventHook::register_ranges(&[(MOVESIZESTART, MINIMIZEEND), (NAMECHANGE,
\* NAMECHANGE)], closure calling on_wnd_event), then
\* nwg::dispatch_thread_events().
RunRegisterHooks ==
    /\ pc = "bound"
    /\ hooks' = Installed(Installed(hooks, evt_hooks[1]), evt_hooks[2])
    /\ hook_thread' = HookThread(hook_thread, hooks', MainThread, evt_hooks)
    /\ event_table' = register_ranges(event_table, MainThread, evt_hooks, "on_wnd_event")
    /\ registered' = Registered(registered, MainThread, evt_hooks, "on_wnd_event")
    /\ pc' = "dispatch"
    /\ last' = Idle
    /\ UNCHANGED <<active_topology, topology, appwindow, raw_handler, monitors, events,
                   captured, issued,
                   borrows>>

(***************************************************************************)
(* The message loop.                                                       *)
(***************************************************************************)
WndEventStep(r, hwnd, o) ==
    /\ appwindow' = r.appwindow
    /\ pc' = IF IsPanic(r.result) THEN "panicked" ELSE "handled"
    /\ captured' = IF IsPanic(r.result) THEN captured
                   ELSE CapturedWith(captured, active_topology, o)
    /\ last' = Op("on_wnd_event", r.result,
                  IF r.result = PanicNoTopology THEN <<"unvisited">>
                  ELSE <<CaptureStatus(o)>>,
                  IF IsPanic(r.result) THEN 0 ELSE 1, <<>>, <<>>, r.writes)

\* event_cb finds the token in EVENT_TABLE and calls the closure, which
\* calls App::on_wnd_event.
OnWndEvent ==
    /\ pc = "dispatch"
    /\ events < MaxEvents
    /\ \E hwnd \in Hwnds, o \in CaptureObs :
         /\ \E token \in hooks, event \in WinEvents :
               event_cb(event_table, MainThread, token, event, hwnd)
                   = <<Invocation("on_wnd_event", event, hwnd)>>
         /\ WndEventStep(on_wnd_event(active_topology, appwindow, hwnd, o), hwnd, o)
    /\ events' = events + 1
    /\ UNCHANGED <<active_topology, topology, raw_handler, event_table, hooks, monitors,
                   issued,
                   registered,
                   hook_thread,
                   borrows>>

\* The name a raw message is logged under.
RawOpName(msg) ==
    CASE msg = WM_DISPLAYCHANGE -> "on_raw_event(WM_DISPLAYCHANGE)"
      [] msg = WM_WTSSESSION_CHANGE -> "on_raw_event(WM_WTSSESSION_CHANGE)"
      [] OTHER -> "on_raw_event"

RawEventStep(r, msg, enum_ok, handles, obs) ==
    /\ active_topology' = r.active
    /\ topology' = r.topology
    /\ pc' = IF IsPanic(r.result) THEN "panicked" ELSE "handled"
    /\ issued' = Issued(issued, [ok |-> r.captured, id |-> r.active], monitors)
    /\ last' = Op(RawOpName(msg), r.result,
                  IF r.captured /\ enum_ok
                  THEN PassStatus(handles, obs, r.visited, r.result, FALSE)
                  ELSE <<>>,
                  r.visited, r.calls, r.lookups, <<>>)

\* The raw handler bound in run() calls App::on_raw_event: one call, with
\* what the OS answers during it.
RawEvent(msg, fault, enum_ok, obs) ==
    RawEventStep(on_raw_event(active_topology, topology, appwindow, msg, monitors,
                              fault, enum_ok, EnumeratedWindows, obs),
                 msg, enum_ok, EnumeratedWindows, obs)

\* Only WM_DISPLAYCHANGE reads the monitors, and the windows only once the
\* topology is captured and EnumWindows has succeeded.
OnRawEvent ==
    /\ pc = "dispatch"
    /\ raw_handler
    /\ events < MaxEvents
    /\ \E msg \in {WM_DISPLAYCHANGE, WM_WTSSESSION_CHANGE, WM_PAINT},
          fault \in TopologyFaults, enum_ok \in BOOLEAN :
         IF msg = WM_DISPLAYCHANGE /\ fault = "none" /\ enum_ok
         THEN \E obs \in [Hwnds -> RestoreObs] : RawEvent(msg, fault, enum_ok, obs)
         ELSE /\ msg # WM_DISPLAYCHANGE => (fault = "none" /\ enum_ok)
              /\ fault # "none" => enum_ok
              /\ RawEvent(msg, fault, enum_ok, [h \in Hwnds |-> Hidden])
    /\ events' = events + 1
    /\ UNCHANGED <<appwindow, raw_handler, event_table, hooks, monitors, captured,
                   registered,
                   hook_thread,
                   borrows>>

\* The handler has returned: the thread waits for the next message.
MessageLoop ==
    /\ pc = "handled"
    /\ pc' = "dispatch"
    /\ last' = Idle
    /\ UNCHANGED <<active_topology, topology, appwindow, raw_handler, event_table,
                   hooks, monitors, events, captured, issued,
                   registered,
                   hook_thread,
                   borrows>>

\* App::on_exit stops the dispatch; run() unregisters the hooks and unbinds
\* the raw handler.
OnExit ==
    /\ pc = "dispatch"
    /\ hooks' = unregister_each(hooks, event_table, MainThread, evt_hooks).hooks
    /\ hook_thread' = HookThread(hook_thread, hooks', MainThread, <<>>)
    /\ event_table' = unregister_each(hooks, event_table, MainThread, evt_hooks).event_table
    /\ raw_handler' = FALSE
    /\ pc' = "exited"
    /\ last' = Op("on_exit", ResultOk, <<>>, 0, <<>>, <<>>, <<>>)
    /\ UNCHANGED <<active_topology, topology, appwindow, monitors, events, captured,
                   issued, registered,
                   borrows>>

(***************************************************************************)
(* The OS: a monitor is attached, detached or changes its resolution.      *)
(***************************************************************************)
DisplaySettingsChange ==
    /\ Alive
    /\ \E cfg \in DisplayConfigs \ {monitors} : monitors' = cfg
    /\ UNCHANGED <<pc, active_topology, topology, appwindow, raw_handler, event_table,
                   hooks, events, last, captured, issued,
                   registered,
                   hook_thread,
                   borrows>>

Next ==
    \/ RunCaptureTopology
    \/ RunCaptureWindows
    \/ RunBindRawHandler
    \/ RunRegisterHooks
    \/ OnWndEvent
    \/ OnRawEvent
    \/ MessageLoop
    \/ OnExit
    \/ DisplaySettingsChange

Spec == Init /\ [][Next]_vars

(***************************************************************************)
(* hook.rs on its own: a client that registers, unregisters and receives   *)
(* notifications on two threads, in any order.  The engine's variables     *)
(* stay as they are.  A callback is named by the number of the call that   *)
(* supplied it.  The OS may hand out again the token of a hook that has    *)
(* been removed, and event_cb may be entered with any token: that of a     *)
(* live hook, of a removed one, or one no registration returned.           *)
(***************************************************************************)
HookOp(name, thread, tokens, cb, args, invoked) ==
    [op |-> name, thread |-> thread, tokens |-> tokens, cb |-> cb, args |-> args,
     invoked |-> invoked]

HookInit ==
    /\ pc = "hook"
    /\ active_topology = 0
    /\ topology = {}
    /\ appwindow = {}
    /\ raw_handler = FALSE
    /\ event_table = [t \in Threads |-> <<>>]
    /\ hooks = {}
    /\ monitors = <<MonWide, MonSecond>>
    /\ events = 0
    /\ last = HookOp("init", MainThread, <<>>, 0, <<>>, <<>>)
    /\ captured = <<>>
    /\ issued = <<>>
    /\ registered = <<>>
    /\ hook_thread = <<>>
    /\ borrows = [t \in Threads |-> 0]

\* EventHook::register(evt_min, evt_max, cb)
HookRegister ==
    /\ events < MaxHookOps
    /\ \E thread \in Threads, token \in SetWinEventHook(hooks) :
         /\ hooks' = Installed(hooks, token)
         /\ hook_thread' = HookThread(hook_thread, hooks', thread, <<token>>)
         /\ event_table' = register(event_table, thread, token, events + 1)
         /\ registered' = Registered(registered, thread, <<token>>, events + 1)
         /\ last' = HookOp("register", thread, <<token>>, events + 1, <<>>, <<>>)
    /\ events' = events + 1
    /\ UNCHANGED <<pc, active_topology, topology, appwindow, raw_handler, monitors,
                   captured, issued,
                   borrows>>

\* EventHook::register_ranges(&[r1, r2], cb)
HookRegisterRanges ==
    /\ events < MaxHookOps
    /\ \E thread \in Threads, t1 \in SetWinEventHook(hooks) :
         \E t2 \in SetWinEventHook(Installed(hooks, t1)) :
            /\ hooks' = Installed(Installed(hooks, t1), t2)
            /\ hook_thread' = HookThread(hook_thread, hooks', thread, <<t1, t2>>)
            /\ event_table' = register_ranges(event_table, thread, <<t1, t2>>, events + 1)
            /\ registered' = Registered(registered, thread, <<t1, t2>>, events + 1)
            /\ last' = HookOp("register_ranges", thread, <<t1, t2>>, events + 1, <<>>, <<>>)
    /\ events' = events + 1
    /\ UNCHANGED <<pc, active_topology, topology, appwindow, raw_handler, monitors,
                   captured, issued,
                   borrows>>

\* EventHook::unregister(handle), with the handle of a live hook.
HookUnregister ==
    /\ events < MaxHookOps
    /\ \E thread \in Threads, token \in hooks :
         /\ hooks' = unregister(hooks, event_table, thread, token).hooks
         /\ hook_thread' = HookThread(hook_thread, hooks', thread, <<>>)
         /\ event_table' = unregister(hooks, event_table, thread, token).event_table
         /\ last' = HookOp("unregister", thread, <<token>>, 0, <<>>, <<>>)
    /\ events' = events + 1
    /\ UNCHANGED <<pc, active_topology, topology, appwindow, raw_handler, monitors,
                   captured, issued, registered,
                   borrows>>

\* The OS enters event_cb on a thread.
HookEventCb ==
    /\ events < MaxHookOps
    /\ \E thread \in Threads, token \in HookTokens, event \in WinEvents, hwnd \in Hwnds :
         last' = HookOp("event_cb", thread, <<token>>, 0, <<event, hwnd>>,
                        event_cb(event_table, thread, token, event, hwnd))
    /\ events' = events + 1
    /\ UNCHANGED <<pc, active_topology, topology, appwindow, raw_handler, event_table,
                   hooks, monitors, captured, issued, registered,
                   hook_thread,
                   borrows>>

HookNext ==
    \/ HookRegister
    \/ HookRegisterRanges
    \/ HookUnregister
    \/ HookEventCb

HookSpec == HookInit /\ [][HookNext]_vars

(***************************************************************************)
(* EventHook::register and register_ranges statement by statement, on two  *)
(* threads.  pc maps each thread to where it is: in its message loop, or   *)
(* inside a registration with the ranges still to install (todo), the      *)
(* tokens SetWinEventHook has returned so far and the callback.  The hooks *)
(* are installed WINEVENT_OUTOFCONTEXT: the OS queues their notifications  *)
(* and enters event_cb only while the thread that installed the hook       *)
(* retrieves messages.                                                     *)
(***************************************************************************)
InLoop == [at |-> "loop", todo |-> 0, tokens |-> <<>>, cb |-> 0]

Registering(k, tokens, cb) == [at |-> "register", todo |-> k, tokens |-> tokens, cb |-> cb]

\* Notifications entering event_cb at any point of the thread's execution,
\* inside a registration too.
DeliveredInContext(at, thread) == TRUE

\* WINEVENT_OUTOFCONTEXT: event_cb is entered on the thread only from its
\* message loop.
Delivered(at, thread) == at[thread].at = "loop"

GapInit ==
    /\ pc = [t \in Threads |-> InLoop]
    /\ active_topology = 0
    /\ topology = {}
    /\ appwindow = {}
    /\ raw_handler = FALSE
    /\ event_table = [t \in Threads |-> <<>>]
    /\ hooks = {}
    /\ monitors = <<MonWide, MonSecond>>
    /\ events = 0
    /\ last = HookOp("init", MainThread, <<>>, 0, <<>>, <<>>)
    /\ captured = <<>>
    /\ issued = <<>>
    /\ registered = <<>>
    /\ hook_thread = <<>>
    /\ borrows = [t \in Threads |-> 0]

\* A thread calls register (one range) or register_ranges (two ranges).
GapCall ==
    /\ events < MaxHookOps
    /\ \E thread \in Threads, k \in 1..MaxHooks :
         /\ pc[thread] = InLoop
         /\ pc' = [pc EXCEPT ![thread] = Registering(k, <<>>, events + 1)]
         /\ last' = HookOp(IF k = 1 THEN "register" ELSE "register_ranges", thread,
                           <<>>, events + 1, <<>>, <<>>)
    /\ events' = events + 1
    /\ UNCHANGED <<active_topology, topology, appwindow, raw_handler, event_table, hooks,
                   monitors, captured, issued, registered, hook_thread,
                   borrows>>

\* The next SetWinEventHook call of the registration.
GapSetWinEventHook ==
    \E thread \in Threads, token \in SetWinEventHook(hooks) :
        /\ pc[thread].at = "register"
        /\ pc[thread].todo > 0
        /\ hooks' = Installed(hooks, token)
        /\ hook_thread' = HookThread(hook_thread, hooks', thread, <<token>>)
        /\ pc' = [pc EXCEPT ![thread] = Registering(pc[thread].todo - 1,
                                                    Append(pc[thread].tokens, token),
                                                    pc[thread].cb)]
        /\ last' = HookOp("SetWinEventHook", thread, <<token>>, pc[thread].cb, <<>>, <<>>)
        /\ UNCHANGED <<active_topology, topology, appwindow, raw_handler, event_table,
                       monitors, events, captured, issued, registered,
                       borrows>>

\* EVENT_TABLE.with(|tab| ..insert..), and the return to the caller.
GapInsert ==
    \E thread \in Threads :
        /\ pc[thread].at = "register"
        /\ pc[thread].todo = 0
        /\ event_table' = register_ranges(event_table, thread, pc[thread].tokens,
                                          pc[thread].cb)
        /\ registered' = Registered(registered, thread, pc[thread].tokens, pc[thread].cb)
        /\ pc' = [pc EXCEPT ![thread] = InLoop]
        /\ last' = HookOp("insert", thread, pc[thread].tokens, pc[thread].cb, <<>>, <<>>)
        /\ UNCHANGED <<active_topology, topology, appwindow, raw_handler, hooks, monitors,
                       events, captured, issued, hook_thread,
                       borrows>>

\* EventHook::unregister(handle), with the handle of a live hook.
GapUnregister ==
    /\ events < MaxHookOps
    /\ \E thread \in Threads, token \in hooks :
         /\ pc[thread] = InLoop
         /\ hooks' = unregister(hooks, event_table, thread, token).hooks
         /\ hook_thread' = HookThread(hook_thread, hooks', thread, <<>>)
         /\ event_table' = unregister(hooks, event_table, thread, token).event_table
         /\ last' = HookOp("unregister", thread, <<token>>, 0, <<>>, <<>>)
    /\ events' = events + 1
    /\ UNCHANGED <<pc, active_topology, topology, appwindow, raw_handler, monitors,
                   captured, issued, registered,
                   borrows>>

\* The OS notifies a live hook: event_cb is entered on the thread that
\* installed it.
GapEventCb ==
    /\ events < MaxHookOps
    /\ \E token \in hooks, event \in WinEvents, hwnd \in Hwnds :
         /\ Delivered(pc, hook_thread[token])
         /\ last' = HookOp("event_cb", hook_thread[token], <<token>>, 0, <<event, hwnd>>,
                           event_cb(event_table, hook_thread[token], token, event, hwnd))
    /\ events' = events + 1
    /\ UNCHANGED <<pc, active_topology, topology, appwindow, raw_handler, event_table,
                   hooks, monitors, captured, issued, registered, hook_thread,
                   borrows>>

GapNext ==
    \/ GapCall
    \/ GapSetWinEventHook
    \/ GapInsert
    \/ GapUnregister
    \/ GapEventCb

GapSpec == GapInit /\ [][GapNext]_vars

(***************************************************************************)
(* The RefCell of EVENT_TABLE on the main thread, from the register_ranges *)
(* call of run() on: tab.borrow_mut() panics while a borrow is held, and   *)
(* tab.borrow() in event_cb is held until the callback has returned.       *)
(***************************************************************************)
PanicBorrowMut == "panic: already borrowed"

\* A callback that registers another hook.
callback_registering == <<"register_ranges">>

\* The EVENT_TABLE operations on the paths from the closure registered in
\* run(): on_wnd_event, capture_window and what they call make none.
callback_table_ops == <<>>

\* tab.borrow_mut(): the flag must be free.
borrow_mut(flags, thread) == flags[thread] = 0

\* tab.borrow(): one more shared borrow, held by the caller.
borrow(flags, thread) == [flags EXCEPT ![thread] = @ + 1]

\* The shared borrow goes out of scope.
drop_borrow(flags, thread) == [flags EXCEPT ![thread] = @ - 1]

BorrowInit ==
    /\ pc = "bound"
    /\ monitors \in DisplayConfigs
    /\ topology = capture_topology({}, monitors, "none").topology
    /\ active_topology = capture_topology({}, monitors, "none").id
    /\ appwindow = {}
    /\ raw_handler = TRUE
    /\ event_table = [t \in Threads |-> <<>>]
    /\ hooks = {}
    /\ events = 0
    /\ last = HookOp("init", MainThread, <<>>, 0, <<>>, <<>>)
    /\ captured = <<>>
    /\ issued = <<[data |-> TopologyToBson(MonitorRects(monitors)),
                   id |-> active_topology, monitors |-> monitors]>>
    /\ registered = <<>>
    /\ hook_thread = <<>>
    /\ borrows = [t \in Threads |-> 0]

\* EventHook::register_ranges in run(): each insert takes borrow_mut.
BorrowRegisterRanges ==
    /\ pc = "bound"
    /\ IF borrow_mut(borrows, MainThread)
       THEN /\ hooks' = Installed(Installed(hooks, evt_hooks[1]), evt_hooks[2])
            /\ hook_thread' = HookThread(hook_thread, hooks', MainThread, evt_hooks)
            /\ event_table' = register_ranges(event_table, MainThread, evt_hooks,
                                              "on_wnd_event")
            /\ registered' = Registered(registered, MainThread, evt_hooks, "on_wnd_event")
            /\ pc' = "dispatch"
       ELSE /\ pc' = PanicBorrowMut
            /\ UNCHANGED <<hooks, hook_thread, event_table, registered>>
    /\ last' = HookOp("register_ranges", MainThread, evt_hooks, "on_wnd_event", <<>>, <<>>)
    /\ UNCHANGED <<active_topology, topology, appwindow, raw_handler, monitors, events,
                   captured, issued, borrows>>

\* The OS enters event_cb from the message loop: tab.borrow(), then the
\* lookup of the token.
BorrowEventCb ==
    /\ pc = "dispatch"
    /\ events < MaxEvents
    /\ \E token \in hooks, event \in WinEvents, hwnd \in Hwnds :
         /\ last' = HookOp("event_cb", MainThread, <<token>>, 0, <<event, hwnd>>,
                           event_cb(event_table, MainThread, token, event, hwnd))
         /\ borrows' = borrow(borrows, MainThread)
    /\ pc' = "event_cb"
    /\ events' = events + 1
    /\ UNCHANGED <<active_topology, topology, appwindow, raw_handler, event_table, hooks,
                   monitors, captured, issued, registered, hook_thread>>

\* (hook.cb)(event, hwnd) with the borrow held: the closure upgrades appref
\* and calls on_wnd_event; a registration made from it takes borrow_mut.
BorrowCallbackStep(r, hwnd, o, ops) ==
    /\ appwindow' = r.appwindow
    /\ captured' = IF IsPanic(r.result) THEN captured
                   ELSE CapturedWith(captured, active_topology, o)
    /\ pc' = IF IsPanic(r.result) THEN "panicked"
             ELSE IF ops # <<>> /\ ~borrow_mut(borrows, MainThread) THEN PanicBorrowMut
             ELSE "returned"
    /\ last' = [last EXCEPT !.op = "callback", !.cb = r.result]

BorrowCallback ==
    /\ pc = "event_cb"
    /\ last.invoked # <<>>
    /\ \E o \in CaptureObs :
         BorrowCallbackStep(on_wnd_event(active_topology, appwindow, last.args[2], o),
                            last.args[2], o, callback_table_ops)
    /\ UNCHANGED <<active_topology, topology, raw_handler, event_table, hooks, monitors,
                   events, issued, registered, hook_thread, borrows>>

\* event_cb returns: the borrow is dropped.
BorrowReturn ==
    /\ pc \in {"event_cb", "returned"}
    /\ pc = "event_cb" => last.invoked = <<>>
    /\ borrows' = drop_borrow(borrows, MainThread)
    /\ pc' = "dispatch"
    /\ last' = [last EXCEPT !.op = "return"]
    /\ UNCHANGED <<active_topology, topology, appwindow, raw_handler, event_table, hooks,
                   monitors, events, captured, issued, registered, hook_thread>>

\* The loop ends: run() unregisters the hooks, without touching the table.
BorrowExit ==
    /\ pc = "dispatch"
    /\ hooks' = unregister_each(hooks, event_table, MainThread, evt_hooks).hooks
    /\ hook_thread' = HookThread(hook_thread, hooks', MainThread, <<>>)
    /\ event_table' = unregister_each(hooks, event_table, MainThread, evt_hooks).event_table
    /\ raw_handler' = FALSE
    /\ pc' = "exited"
    /\ last' = HookOp("unregister", MainThread, evt_hooks, 0, <<>>, <<>>)
    /\ UNCHANGED <<active_topology, topology, appwindow, monitors, events, captured,
                   issued, registered, borrows>>

BorrowNext ==
    \/ BorrowRegisterRanges
    \/ BorrowEventCb
    \/ BorrowCallback
    \/ BorrowReturn
    \/ BorrowExit

BorrowSpec == BorrowInit /\ [][BorrowNext]_vars

(***************************************************************************)
(* App::capture_topology on its own: the monitors change between calls     *)
(* through TopologyConfigs, and each call meets any of the faults.         *)
(***************************************************************************)
TopologyInit ==
    /\ pc = "capture_topology"
    /\ active_topology = 0
    /\ topology = {}
    /\ appwindow = {}
    /\ raw_handler = FALSE
    /\ event_table = [t \in Threads |-> <<>>]
    /\ hooks = {}
    /\ monitors \in TopologyConfigs
    /\ events = 0
    /\ last = Op("init", ResultOk, <<>>, 0, <<>>, <<>>, <<>>)
    /\ captured = <<>>
    /\ issued = <<>>
    /\ registered = <<>>
    /\ hook_thread = <<>>
    /\ borrows = [t \in Threads |-> 0]

\* One call: last.status keeps the fault the call met.
TopologyCaptureStep(ct, fault) ==
    /\ topology' = ct.topology
    /\ issued' = Issued(issued, ct, monitors)
    /\ last' = Op("capture_topology", IF ct.ok THEN ResultOk ELSE ResultErr,
                  <<fault>>, 0, <<>>, <<>>, <<>>)

TopologyCapture ==
    /\ events < MaxEvents
    /\ \E fault \in TopologyFaults :
         TopologyCaptureStep(capture_topology(topology, monitors, fault), fault)
    /\ events' = events + 1
    /\ UNCHANGED <<pc, active_topology, appwindow, raw_handler, event_table, hooks,
                   monitors, captured, registered,
                   hook_thread,
                   borrows>>

TopologyDisplayChange ==
    /\ \E cfg \in TopologyConfigs \ {monitors} : monitors' = cfg
    /\ UNCHANGED <<pc, active_topology, topology, appwindow, raw_handler, event_table,
                   hooks, events, last, captured, issued, registered,
                   hook_thread,
                   borrows>>

TopologyNext ==
    \/ TopologyCapture
    \/ TopologyDisplayChange

TopologySpec == TopologyInit /\ [][TopologyNext]_vars

(***************************************************************************)
(* C1.  Idempotent topology identity: any two capture_topology calls that  *)
(* serialize the same ordered list of monitor rectangles return the same   *)
(* topology id, whatever happened between them, and table topology never   *)
(* holds two rows with the same data.                                      *)
(***************************************************************************)
IdempotentTopologyIdentity ==
    /\ \A i, j \in DOMAIN issued :
         issued[i].data = issued[j].data => issued[i].id = issued[j].id
    /\ \A r, q \in topology : r.data = q.data => r = q

\* Three calls: the first and the third met the same monitors, the second
\* other ones.
IdempotentTopologyIdentityWitness ==
    /\ Len(issued) = 3
    /\ issued[1].data = issued[3].data
    /\ issued[1].data # issued[2].data
    /\ issued[1].id = issued[3].id

(***************************************************************************)
(* Reading the log of a display-change step.                               *)
(***************************************************************************)
\* The placement wp carries the show-state, both icon positions and the
\* normal rectangle of the captured placement R.
Carries(wp, R) ==
    /\ wp.showCmd = R.show
    /\ wp.ptMinPosition = R.min
    /\ wp.ptMaxPosition = R.max
    /\ wp.rcNormalPosition = R.rect

\* The SetWindowPlacement calls made on hwnd, in order.
CallsOn(calls, hwnd) == SelectSeq(calls, LAMBDA c : c.hwnd = hwnd)

\* Some call on hwnd carries R.
Applied(calls, hwnd, R) ==
    \E k \in DOMAIN calls : calls[k].hwnd = hwnd /\ Carries(calls[k].placement, R)

\* The only call on hwnd is the first of the maximize pair, refused by the
\* OS: R's geometry with the show-state forced to normal.
OnlyNormalStepRefused(calls, hwnd, R) ==
    /\ R.show = SW_MAXIMIZE
    /\ Len(CallsOn(calls, hwnd)) = 1
    /\ ~CallsOn(calls, hwnd)[1].ok
    /\ Carries(CallsOn(calls, hwnd)[1].placement, [R EXCEPT !.show = SW_SHOWNORMAL])

\* The row of the window looked up as l holds the placement R.
StoreHolds(tbl, l, R) ==
    \E r \in SelectDisp(tbl, l.topology, l.path, l.class, l.title) :
        r.disp = WindowDisplayToBson(R)

LookupKey(l) == Key(l.topology, l.path, l.class, l.title)

\* This step is an on_raw_event(WM_DISPLAYCHANGE) whose capture_topology
\* returned Ok.
DisplayChangeCaptured ==
    /\ last'.op = "on_raw_event(WM_DISPLAYCHANGE)"
    /\ Len(issued') = Len(issued) + 1

\* The monitors of this step were never fingerprinted before: nothing is
\* stored under their id and no placement is applied.
FreshTopologyUntouched ==
    (\A k \in DOMAIN issued : issued[k].data # issued'[Len(issued')].data)
    => /\ last'.calls = <<>>
       /\ \A r \in appwindow' : r.topology # issued'[Len(issued')].id
       /\ \A k \in DOMAIN issued : issued[k].id # issued'[Len(issued')].id

\* The monitors of this step are those of an earlier capture: the id is the
\* earlier one, and it is the active one.
KnownTopologySameId ==
    \A k \in DOMAIN issued :
        issued[k].data = issued'[Len(issued')].data
        => /\ issued'[Len(issued')].id = issued[k].id
           /\ active_topology' = issued[k].id

(***************************************************************************)
(* C2.  Monitor disconnect/reconnect.  In a display-change step whose      *)
(* topology capture succeeds: if the rectangle sequence is new, no record  *)
(* exists under its id and no placement is applied; if it is the sequence  *)
(* of an earlier capture, the id is the earlier one, and every window the  *)
(* restore pass looks up whose record under that id holds its captured     *)
(* placement R0 gets a placement-apply call carrying R0.                   *)
(***************************************************************************)
DisconnectReconnectStep ==
    DisplayChangeCaptured =>
        /\ FreshTopologyUntouched
        /\ KnownTopologySameId
        /\ \A k \in DOMAIN last'.lookups :
              (/\ LookupKey(last'.lookups[k]) \in DOMAIN captured
               /\ StoreHolds(appwindow, last'.lookups[k],
                             captured[LookupKey(last'.lookups[k])]))
              => Applied(last'.calls, last'.lookups[k].hwnd,
                         captured[LookupKey(last'.lookups[k])])

DisconnectReconnect == [][DisconnectReconnectStep]_vars

(***************************************************************************)
(* C2, as the code has it: the same, but R0 is applied unless it is        *)
(* maximized and the OS refuses the first call of the maximize pair; then  *)
(* that call, carrying R0's geometry with the show-state forced to normal, *)
(* is the only one made on the window.                                     *)
(***************************************************************************)
DisconnectReconnectAcceptedStep ==
    DisplayChangeCaptured =>
        /\ FreshTopologyUntouched
        /\ KnownTopologySameId
        /\ \A k \in DOMAIN last'.lookups :
              (/\ LookupKey(last'.lookups[k]) \in DOMAIN captured
               /\ StoreHolds(appwindow, last'.lookups[k],
                             captured[LookupKey(last'.lookups[k])]))
              => \/ Applied(last'.calls, last'.lookups[k].hwnd,
                            captured[LookupKey(last'.lookups[k])])
                 \/ OnlyNormalStepRefused(last'.calls, last'.lookups[k].hwnd,
                                          captured[LookupKey(last'.lookups[k])])

DisconnectReconnectAccepted == [][DisconnectReconnectAcceptedStep]_vars

\* T0, then T1, then T0 again: the third capture returned the id of the
\* first, and the restore pass applied to a window the placement captured
\* for it under T0.
DisconnectReconnectWitness ==
    /\ last.op = "on_raw_event(WM_DISPLAYCHANGE)"
    /\ Len(issued) = 3
    /\ issued[1].data = issued[3].data
    /\ issued[1].data # issued[2].data
    /\ issued[3].id = issued[1].id
    /\ active_topology = issued[1].id
    /\ \E k \in DOMAIN last.lookups :
          /\ LookupKey(last.lookups[k]) \in DOMAIN captured
          /\ StoreHolds(appwindow, last.lookups[k], captured[LookupKey(last.lookups[k])])
          /\ Applied(last.calls, last.lookups[k].hwnd,
                     captured[LookupKey(last.lookups[k])])

\* What find_window returns for the window looked up as l.
Found(tbl, l) == find_window(tbl, l.topology, l.path, l.class, l.title)

\* The calls cs are the maximize pair for the stored record R, both made.
MaximizePair(cs, R) ==
    /\ Len(cs) = 2
    /\ cs[1].ok
    /\ Carries(cs[1].placement, [R EXCEPT !.show = SW_SHOWNORMAL])
    /\ Carries(cs[2].placement, R)

\* The calls cs are the first call of the maximize pair alone, refused.
MaximizePairRefused(cs, R) ==
    /\ Len(cs) = 1
    /\ ~cs[1].ok
    /\ Carries(cs[1].placement, [R EXCEPT !.show = SW_SHOWNORMAL])

(***************************************************************************)
(* C3.  Maximize two-step: when restore_window finds a stored record whose *)
(* show-state is maximized, exactly two placement-apply calls are made on  *)
(* the window: the first with the show-state forced to normal, the second  *)
(* with the maximized show-state, both with the stored rectangle and icon  *)
(* positions.                                                              *)
(***************************************************************************)
MaximizeTwoStep ==
    \A k \in DOMAIN last.lookups :
        (/\ Found(appwindow, last.lookups[k]) # <<>>
         /\ Found(appwindow, last.lookups[k])[1].show = SW_MAXIMIZE)
        => /\ Len(CallsOn(last.calls, last.lookups[k].hwnd)) = 2
           /\ Carries(CallsOn(last.calls, last.lookups[k].hwnd)[1].placement,
                      [Found(appwindow, last.lookups[k])[1] EXCEPT !.show = SW_SHOWNORMAL])
           /\ Carries(CallsOn(last.calls, last.lookups[k].hwnd)[2].placement,
                      Found(appwindow, last.lookups[k])[1])

(***************************************************************************)
(* C3, as the code has it: the two calls are made when the OS accepts the  *)
(* first; when it refuses the first, that call is the only one.            *)
(***************************************************************************)
MaximizeTwoStepUnlessRefused ==
    \A k \in DOMAIN last.lookups :
        (/\ Found(appwindow, last.lookups[k]) # <<>>
         /\ Found(appwindow, last.lookups[k])[1].show = SW_MAXIMIZE)
        => \/ MaximizePair(CallsOn(last.calls, last.lookups[k].hwnd),
                           Found(appwindow, last.lookups[k])[1])
           \/ MaximizePairRefused(CallsOn(last.calls, last.lookups[k].hwnd),
                                  Found(appwindow, last.lookups[k])[1])

\* A restore pass found a maximized record and made the two calls.
MaximizeTwoStepWitness ==
    \E k \in DOMAIN last.lookups :
        /\ Found(appwindow, last.lookups[k]) # <<>>
        /\ Found(appwindow, last.lookups[k])[1].show = SW_MAXIMIZE
        /\ MaximizePair(CallsOn(last.calls, last.lookups[k].hwnd),
                        Found(appwindow, last.lookups[k])[1])

\* The rows of the table stored under another topology than topo.
RowsElsewhere(tbl, topo) == {r \in tbl : r.topology # topo}

\* R is a placement captured under topology topo.
CapturedUnder(cap, topo, R) ==
    \E key \in DOMAIN cap : key[1] = topo /\ cap[key] = R

(***************************************************************************)
(* C4.  Key isolation: no step changes a record stored under a topology    *)
(* other than the active one, so a capture under T1 leaves the record of   *)
(* the same window under T2 alone; and whatever a lookup under T2 returns  *)
(* is a placement captured under T2, never one written under T1 only.      *)
(***************************************************************************)
KeyIsolationStep ==
    /\ RowsElsewhere(appwindow', active_topology) = RowsElsewhere(appwindow, active_topology)
    /\ \A k \in DOMAIN last'.lookups :
          Found(appwindow', last'.lookups[k]) # <<>>
          => CapturedUnder(captured', last'.lookups[k].topology,
                           Found(appwindow', last'.lookups[k])[1])

KeyIsolation == [][KeyIsolationStep]_vars

\* One window identity holds different placements under two topologies, and
\* a lookup under one of them returned that topology's record.
KeyIsolationWitness ==
    \E k \in DOMAIN last.lookups :
        /\ Found(appwindow, last.lookups[k]) # <<>>
        /\ \E r \in SelectDispAnyTopology(appwindow, last.lookups[k].topology,
                                           last.lookups[k].path, last.lookups[k].class,
                                           last.lookups[k].title) :
              /\ r.topology # last.lookups[k].topology
              /\ WindowDisplayFromBson(r.disp) # Found(appwindow, last.lookups[k])[1]
              /\ ~CapturedUnder(captured, last.lookups[k].topology,
                                WindowDisplayFromBson(r.disp))

(***************************************************************************)
(* C5.  Capture/restore round trip: when the latest successful capture for *)
(* (T, identity) stored the placement P, a restore_window of a visible     *)
(* window with that identity under active topology T ends with a           *)
(* placement-apply call carrying P's show-state, both icon positions and   *)
(* normal rectangle.  The refused first call of a maximize pair (C3) is    *)
(* set aside: the statement fails without it.                              *)
(***************************************************************************)
CaptureRestoreRoundTrip ==
    \A k \in DOMAIN last.lookups :
        LookupKey(last.lookups[k]) \in DOMAIN captured
        => \/ /\ CallsOn(last.calls, last.lookups[k].hwnd) # <<>>
              /\ Carries(CallsOn(last.calls, last.lookups[k].hwnd)
                             [Len(CallsOn(last.calls, last.lookups[k].hwnd))].placement,
                         captured[LookupKey(last.lookups[k])])
           \/ OnlyNormalStepRefused(last.calls, last.lookups[k].hwnd,
                                    captured[LookupKey(last.lookups[k])])

(***************************************************************************)
(* C6.  Last-write-wins: for every key (topology, path, class, title) that *)
(* has been captured, table appwindow holds exactly one record, and it is  *)
(* the placement of the latest successful capture for that key.            *)
(***************************************************************************)
LastWriteWins ==
    \A key \in DOMAIN captured :
        /\ Cardinality(SelectDisp(appwindow, key[1], key[2], key[3], key[4])) = 1
        /\ \A r \in SelectDisp(appwindow, key[1], key[2], key[3], key[4]) :
              r.disp = WindowDisplayToBson(captured[key])

(***************************************************************************)
(* C7.  Unknown-window restore is a no-op: a restore_window of a visible   *)
(* window whose (topology, path, class, title) was never captured makes no *)
(* placement-apply call, and the restore pass leaves table appwindow as it *)
(* was.                                                                    *)
(***************************************************************************)
UnknownWindowNoOpStep ==
    /\ \A k \in DOMAIN last'.lookups :
          LookupKey(last'.lookups[k]) \notin DOMAIN captured'
          => CallsOn(last'.calls, last'.lookups[k].hwnd) = <<>>
    /\ last'.lookups # <<>> => appwindow' = appwindow

UnknownWindowNoOp == [][UnknownWindowNoOpStep]_vars

(***************************************************************************)
(* C8.  Per-item isolation: in a capture pass and in a restore pass over   *)
(* the enumerated windows, when resolving class, title, placement or       *)
(* owning process fails for one window, every other window is still        *)
(* processed (an eligible one is written, respectively looked up) and the  *)
(* pass returns success.                                                   *)
(***************************************************************************)
ResolveFailed(st) == st \in {"error", "invalid_utf16"}

PerItemIsolation ==
    (\E i \in DOMAIN last.status : ResolveFailed(last.status[i]))
    => /\ \A j \in DOMAIN last.status : last.status[j] # "unvisited"
       /\ last.result \in {ResultOk, "None"}
       /\ last.op = "capture_windows"
          => \A j \in DOMAIN last.status :
                last.status[j] = "ok" => \E w \in DOMAIN last.writes : last.writes[w].hwnd = j
       /\ last.op = "on_raw_event(WM_DISPLAYCHANGE)"
          => \A j \in DOMAIN last.status :
                last.status[j] = "ok" => \E w \in DOMAIN last.lookups : last.lookups[w].hwnd = j

(***************************************************************************)
(* C9.  No capture or restore runs while no topology is active: the        *)
(* expect("no active topology") of capture_window and restore_window never *)
(* fires, every write and lookup is made under a topology id, and the      *)
(* active topology is set in every state from which the startup capture    *)
(* pass or a handler can run and whenever a hook or the raw handler is     *)
(* registered.                                                             *)
(***************************************************************************)
NeverUninitialized ==
    /\ last.result # PanicNoTopology
    /\ \A k \in DOMAIN last.writes : last.writes[k].topology # 0
    /\ \A k \in DOMAIN last.lookups : last.lookups[k].topology # 0
    /\ pc \in {"topology", "captured", "bound", "dispatch", "handled"}
       => active_topology # 0
    /\ (hooks # {} \/ raw_handler) => active_topology # 0
    /\ pc = "run" => (active_topology = 0 /\ hooks = {} /\ ~raw_handler /\ appwindow = {})

\* A hook has called on_wnd_event, which wrote a record under the active
\* topology.
NeverUninitializedWitness ==
    /\ last.op = "on_wnd_event"
    /\ last.writes # <<>>
    /\ last.writes[1].topology = active_topology
    /\ active_topology # 0
    /\ hooks # {}

(***************************************************************************)
(* C10.  Capture-before-restore: in every display-change step whose        *)
(* topology capture succeeds, the active topology becomes the id of the    *)
(* monitors as they are during that step, and every lookup of the restore  *)
(* pass of the step is made under that id.                                 *)
(***************************************************************************)
CaptureBeforeRestoreStep ==
    DisplayChangeCaptured =>
        /\ active_topology' = SelectRowId(topology', TopologyToBson(MonitorRects(monitors)))
        /\ active_topology' = issued'[Len(issued')].id
        /\ \A k \in DOMAIN last'.lookups :
              last'.lookups[k].topology = active_topology'

CaptureBeforeRestore == [][CaptureBeforeRestoreStep]_vars

\* A display change moved the active topology to another id, and the
\* restore pass looked its windows up under the new one.
CaptureBeforeRestoreWitness ==
    /\ last.op = "on_raw_event(WM_DISPLAYCHANGE)"
    /\ Len(issued) >= 2
    /\ issued[Len(issued)].id # issued[Len(issued) - 1].id
    /\ active_topology = issued[Len(issued)].id
    /\ last.lookups # <<>>
    /\ \A k \in DOMAIN last.lookups : last.lookups[k].topology = issued[Len(issued)].id

(***************************************************************************)
(* Reading the log of an event_cb call.                                    *)
(***************************************************************************)
\* The last operation was event_cb, entered with a token that a
\* registration on the same thread returned and whose hook the OS no longer
\* holds: unregister has returned for it.
LateNotification ==
    /\ last.op = "event_cb"
    /\ <<last.thread, last.tokens[1]>> \in DOMAIN registered
    /\ last.tokens[1] \notin hooks

(***************************************************************************)
(* C11.  Unregistered subscriptions are dropped at dispatch: once          *)
(* unregister(handle) has returned, a notification that still arrives      *)
(* carrying the handle's token invokes no callback.                        *)
(***************************************************************************)
UnregisteredDropped == LateNotification => last.invoked = <<>>

(***************************************************************************)
(* C11, as the code has it: unregister leaves the table entry in place, so *)
(* a notification that arrives with the token after unregister has         *)
(* returned invokes, once, the callback last registered under it on that   *)
(* thread.                                                                 *)
(***************************************************************************)
UnregisteredStillDispatched ==
    LateNotification
    => /\ Len(last.invoked) = 1
       /\ last.invoked[1].cb = registered[<<last.thread, last.tokens[1]>>]

\* A notification arrived for a token after its hook was removed, and the
\* callback ran.
UnregisteredStillDispatchedWitness ==
    /\ LateNotification
    /\ last.invoked # <<>>
    /\ last.invoked[1].cb = registered[<<last.thread, last.tokens[1]>>]

(***************************************************************************)
(* C12.  Dispatch routing: a notification carrying token h, entering       *)
(* event_cb on a thread, invokes exactly once the callback supplied to the *)
(* registration on that thread that returned h, with the notification's    *)
(* event id and window handle, and no other callback; a token that no      *)
(* registration returned invokes nothing.                                  *)
(***************************************************************************)
DispatchRouting ==
    last.op = "event_cb"
    => last.invoked =
          IF <<last.thread, last.tokens[1]>> \in DOMAIN registered
          THEN <<Invocation(registered[<<last.thread, last.tokens[1]>>],
                            last.args[1], last.args[2])>>
          ELSE <<>>

\* Two live hooks registered on one thread with different callbacks, and a
\* notification for one of them invoked its callback, not the other.
DispatchRoutingWitness ==
    /\ last.op = "event_cb"
    /\ last.tokens[1] \in hooks
    /\ Len(last.invoked) = 1
    /\ last.invoked[1].cb = registered[<<last.thread, last.tokens[1]>>]
    /\ \E h \in hooks :
          /\ <<last.thread, h>> \in DOMAIN registered
          /\ registered[<<last.thread, h>>] # last.invoked[1].cb

\* The tokens a registration returned that name a hook: all but the null one.
HookTokensOf(tokens) == {tokens[i] : i \in DOMAIN tokens} \ {NullHook}

\* In the table of the thread every returned token maps to the callback cb,
\* and a notification carrying it invokes cb.
RecordedShared(table, thread, tokens, cb) ==
    \A i \in DOMAIN tokens :
        /\ tokens[i] \in DOMAIN table[thread]
        /\ table[thread][tokens[i]] = cb
        /\ \A event \in WinEvents, hwnd \in Hwnds :
              event_cb(table, thread, tokens[i], event, hwnd)
                  = <<Invocation(cb, event, hwnd)>>

(***************************************************************************)
(* C13.  register_ranges over two ranges installs two OS hooks, returns    *)
(* two tokens, one per range, and records every returned token in the      *)
(* table of the calling thread mapped to the one shared callback, so a     *)
(* notification carrying either token invokes that callback; the callback  *)
(* is held by as many table entries as tokens were returned.               *)
(***************************************************************************)
RegisterRangesInstallsAll ==
    last.op = "register_ranges"
    => /\ Len(last.tokens) = 2
       /\ last.tokens[1] # last.tokens[2]
       /\ \A i \in DOMAIN last.tokens : last.tokens[i] \in hooks
       /\ RecordedShared(event_table, last.thread, last.tokens, last.cb)
       /\ RcCount(event_table, last.cb) = 2

(***************************************************************************)
(* C13, as the code has it: SetWinEventHook is called once per range and   *)
(* its results are returned in range order; a range the OS refuses yields  *)
(* the null token and installs no hook.  The tokens of the installed hooks *)
(* are distinct and live, and every returned value, the null token         *)
(* included, is recorded mapped to the shared callback, which is held by   *)
(* one table entry per distinct value returned.                            *)
(***************************************************************************)
RegisterRangesInstallsAccepted ==
    last.op = "register_ranges"
    => /\ Len(last.tokens) = 2
       /\ (last.tokens[1] # NullHook /\ last.tokens[2] # NullHook)
          => last.tokens[1] # last.tokens[2]
       /\ HookTokensOf(last.tokens) \subseteq hooks
       /\ RecordedShared(event_table, last.thread, last.tokens, last.cb)
       /\ RcCount(event_table, last.cb)
             = Cardinality({last.tokens[i] : i \in DOMAIN last.tokens})
       /\ RcCount(event_table, last.cb) >= 1

\* Both ranges were accepted: two live hooks, two table entries, one callback.
RegisterRangesWitness ==
    /\ last.op = "register_ranges"
    /\ Cardinality(HookTokensOf(last.tokens)) = 2
    /\ HookTokensOf(last.tokens) \subseteq hooks
    /\ RecordedShared(event_table, last.thread, last.tokens, last.cb)
    /\ RcCount(event_table, last.cb) = 2

\* What a capture logs for a window that is not eligible.
Ineligible(st) == st \in {"invisible", "not_top_level"}

\* No REPLACE was executed for the window hwnd.
NoWriteFor(writes, hwnd) == \A w \in DOMAIN writes : writes[w].hwnd # hwnd

(***************************************************************************)
(* C14.  capture_window eligibility: for a window that is not visible, or  *)
(* is not top-level, capture_window returns Ok, resolves nothing (a class  *)
(* name, title or owner that could not be read does no harm) and leaves    *)
(* table appwindow unchanged, called from a hook and in a capture pass.    *)
(***************************************************************************)
CaptureEligibilityStep ==
    /\ (last'.op = "on_wnd_event" /\ Ineligible(last'.status[1]))
       => /\ last'.result = ResultOk
          /\ last'.writes = <<>>
          /\ appwindow' = appwindow
          /\ pc' = "handled"
    /\ (last'.op = "capture_windows" /\ last'.status # <<>>)
       => /\ \A j \in DOMAIN last'.status :
                Ineligible(last'.status[j]) => NoWriteFor(last'.writes, j)
          /\ (\A j \in DOMAIN last'.status : Ineligible(last'.status[j]))
             => (last'.result = ResultOk /\ appwindow' = appwindow)

CaptureEligibility == [][CaptureEligibilityStep]_vars

\* A hook reported a window that is visible but not top-level while the
\* store holds records: nothing was written and the call returned Ok.
CaptureEligibilityWitness ==
    /\ last.op = "on_wnd_event"
    /\ last.status = <<"not_top_level">>
    /\ last.result = ResultOk
    /\ last.writes = <<>>
    /\ appwindow # {}

\* The lookups a restore pass made for the window hwnd, in order.
LookupsOn(lookups, hwnd) == SelectSeq(lookups, LAMBDA l : l.hwnd = hwnd)

\* What a restore logs for a visible window whose identity was resolved.
Resolved(st) == st \in {"ok", "ok_not_top_level"}

(***************************************************************************)
(* C15.  restore_window eligibility: in a restore pass an invisible window *)
(* gets no lookup and no SetWindowPlacement call; a lookup is made only    *)
(* for a visible window; and a visible window whose identity resolves,     *)
(* top-level or not, is looked up once under the active topology and, iff  *)
(* a record is found, gets SetWindowPlacement calls.                       *)
(***************************************************************************)
RestoreEligibility ==
    (last.op = "on_raw_event(WM_DISPLAYCHANGE)" /\ last.status # <<>>)
    => \A j \in DOMAIN last.status :
          /\ last.status[j] = "invisible"
             => (LookupsOn(last.lookups, j) = <<>> /\ CallsOn(last.calls, j) = <<>>)
          /\ LookupsOn(last.lookups, j) # <<>>
             => last.status[j] \notin {"invisible", "unvisited"}
          /\ Resolved(last.status[j])
             => /\ Len(LookupsOn(last.lookups, j)) = 1
                /\ LookupsOn(last.lookups, j)[1].topology = active_topology
                /\ (CallsOn(last.calls, j) # <<>>
                    <=> Found(appwindow, LookupsOn(last.lookups, j)[1]) # <<>>)

\* A pass met a visible window that is not top-level and an invisible one:
\* the first was looked up, had a record and got its placement applied, the
\* second got nothing.
RestoreEligibilityWitness ==
    /\ last.op = "on_raw_event(WM_DISPLAYCHANGE)"
    /\ \E j \in DOMAIN last.status :
          /\ last.status[j] = "ok_not_top_level"
          /\ LookupsOn(last.lookups, j) # <<>>
          /\ Found(appwindow, LookupsOn(last.lookups, j)[1]) # <<>>
          /\ CallsOn(last.calls, j) # <<>>
          /\ CallsOn(last.calls, j)[1].ok
    /\ \E j \in DOMAIN last.status : last.status[j] = "invisible"

\* The stored record R applied in the single call of the catch-all arm: one
\* SetWindowPlacement call, carrying R's show-state and geometry.
SingleCall(cs, R) == Len(cs) = 1 /\ Carries(cs[1].placement, R)

(***************************************************************************)
(* C16.  A restore that finds a record whose show-state is not SW_MAXIMIZE *)
(* (SW_SHOWNORMAL, SW_SHOWMINIMIZED) makes exactly one SetWindowPlacement  *)
(* call on the window, accepted or refused, carrying the stored show-state,*)
(* icon positions and normal rectangle unmodified.                         *)
(***************************************************************************)
SingleCallOtherwise ==
    \A k \in DOMAIN last.lookups :
        (/\ Found(appwindow, last.lookups[k]) # <<>>
         /\ Found(appwindow, last.lookups[k])[1].show # SW_MAXIMIZE)
        => SingleCall(CallsOn(last.calls, last.lookups[k].hwnd),
                      Found(appwindow, last.lookups[k])[1])

\* One pass restored a record stored minimized and a record stored normal.
SingleCallOtherwiseWitness ==
    /\ \E k \in DOMAIN last.lookups :
          /\ Found(appwindow, last.lookups[k]) # <<>>
          /\ Found(appwindow, last.lookups[k])[1].show = SW_SHOWMINIMIZED
          /\ SingleCall(CallsOn(last.calls, last.lookups[k].hwnd),
                        Found(appwindow, last.lookups[k])[1])
    /\ \E k \in DOMAIN last.lookups :
          /\ Found(appwindow, last.lookups[k]) # <<>>
          /\ Found(appwindow, last.lookups[k])[1].show = SW_SHOWNORMAL
          /\ SingleCall(CallsOn(last.calls, last.lookups[k].hwnd),
                        Found(appwindow, last.lookups[k])[1])

\* The rectangle of each monitor of a configuration, in enumeration order.
RectSequence(mons) == [i \in DOMAIN mons |-> mons[i].rect]

\* The monitors of b are those of a in another order.
Reordered(a, b) ==
    /\ a # b
    /\ Len(a) = Len(b)
    /\ {a[i] : i \in DOMAIN a} = {b[i] : i \in DOMAIN b}

(***************************************************************************)
(* C17.  Topology identity is the ordered rectangle sequence: two          *)
(* capture_topology calls return the same id iff the monitors they met     *)
(* have equal rectangles position by position; work area, name and primary *)
(* flag play no part, and the same rectangles in another order get another *)
(* id.                                                                     *)
(***************************************************************************)
TopologyIdentity ==
    \A i, j \in DOMAIN issued :
        issued[i].id = issued[j].id
        <=> RectSequence(issued[i].monitors) = RectSequence(issued[j].monitors)

\* Three calls: the second met the rectangles of the first with another work
\* area, name and primary flag and got the same id; the third met the
\* monitors of the first in the other order and got another id.
TopologyIdentityWitness ==
    /\ Len(issued) = 3
    /\ issued[1].monitors # issued[2].monitors
    /\ RectSequence(issued[1].monitors) = RectSequence(issued[2].monitors)
    /\ \E k \in DOMAIN issued[1].monitors :
          /\ issued[1].monitors[k].work # issued[2].monitors[k].work
          /\ issued[1].monitors[k].name # issued[2].monitors[k].name
          /\ issued[1].monitors[k].primary # issued[2].monitors[k].primary
    /\ issued[1].id = issued[2].id
    /\ Reordered(issued[1].monitors, issued[3].monitors)
    /\ issued[3].id # issued[1].id

\* This step is a capture_topology call that met a fault.
FaultedCapture ==
    /\ events' = events + 1
    /\ last'.op = "capture_topology"
    /\ last'.status # <<"none">>

(***************************************************************************)
(* C19.  capture_topology is all-or-nothing: a call in which the monitor   *)
(* enumeration fails, or the info query of a monitor fails, returns Err    *)
(* and leaves table topology exactly as it was; every row of the table     *)
(* holds the complete rectangle list of a call that returned Ok.           *)
(***************************************************************************)
TopologyAllOrNothingStep ==
    /\ FaultedCapture
       => /\ last'.result = ResultErr
          /\ topology' = topology
          /\ issued' = issued
    /\ \A r \in topology' : \E i \in DOMAIN issued' : issued'[i].data = r.data

TopologyAllOrNothing == [][TopologyAllOrNothingStep]_vars

\* The info query failed in a call that met two monitors the table has no
\* row for, while the table holds other rows: the call returned Err.
TopologyAllOrNothingWitness ==
    /\ last.op = "capture_topology"
    /\ last.status = <<"monitor_info">>
    /\ last.result = ResultErr
    /\ Len(monitors) = 2
    /\ topology # {}
    /\ \A r \in topology : r.data # TopologyToBson(RectSequence(monitors))

\* The pass logged in last never got a window list: EnumWindows failed.
EnumerationFailed ==
    \/ last.op = "capture_windows" /\ last.status = <<>>
    \/ last.op = "on_raw_event(WM_DISPLAYCHANGE)" /\ last.result = PanicEnumWindows

\* The pass logged in last went over the enumerated windows.
Enumerated ==
    /\ last.op \in {"capture_windows", "on_raw_event(WM_DISPLAYCHANGE)"}
    /\ last.status # <<>>

(***************************************************************************)
(* C18.  capture_windows and restore_windows fail iff window::windows()    *)
(* fails: when the enumeration fails the call returns Err (which the       *)
(* display-change handler unwraps) having visited no window, written no    *)
(* row and made no lookup and no SetWindowPlacement call; when the         *)
(* enumeration succeeds the call runs to its end and returns Ok.           *)
(***************************************************************************)
BatchFailsIffEnumerationFails ==
    /\ EnumerationFailed
       => /\ last.op = "capture_windows" => last.result = ResultErr
          /\ last.visited = 0
          /\ last.writes = <<>>
          /\ last.lookups = <<>>
          /\ last.calls = <<>>
    /\ Enumerated => last.result \in {ResultOk, "None"}

\* This step is a register or register_ranges call.
RegistrationStep ==
    /\ events' = events + 1
    /\ last'.op \in {"register", "register_ranges"}

\* What event_cb invokes on the thread for every token and notification.
Dispatched(table, thread) ==
    [a \in (HookTokens \cup {NullHook}) \X WinEvents \X Hwnds |->
        event_cb(table, thread, a[1], a[2], a[3])]

(***************************************************************************)
(* C20.  The registration tables are thread-confined: a registration on a  *)
(* thread records its tokens in the table of that thread and leaves the    *)
(* table of every other thread, and what event_cb invokes there, as they   *)
(* were; and event_cb entered on a thread with a token that no             *)
(* registration on that thread returned invokes nothing, although another  *)
(* thread may have registered that token.                                  *)
(***************************************************************************)
ThreadConfinedStep ==
    /\ RegistrationStep
       => /\ \A i \in DOMAIN last'.tokens :
                last'.tokens[i] \in DOMAIN event_table'[last'.thread]
          /\ \A t \in Threads \ {last'.thread} :
                /\ event_table'[t] = event_table[t]
                /\ Dispatched(event_table', t) = Dispatched(event_table, t)
    /\ (last'.op = "event_cb" /\ <<last'.thread, last'.tokens[1]>> \notin DOMAIN registered')
       => last'.invoked = <<>>

ThreadConfined == [][ThreadConfinedStep]_vars

\* A notification carrying the token of a live hook registered on one thread
\* entered event_cb on another thread, which has registrations of its own
\* but none that returned this token: nothing was invoked.
ThreadConfinedWitness ==
    /\ last.op = "event_cb"
    /\ last.tokens[1] \in hooks
    /\ \E t \in Threads \ {last.thread} : <<t, last.tokens[1]>> \in DOMAIN registered
    /\ <<last.thread, last.tokens[1]>> \notin DOMAIN registered
    /\ event_table[last.thread] # <<>>
    /\ last.invoked = <<>>

\* The startup call logged in last returned Err.
StartupCallFailed ==
    /\ last.op \in {"capture_topology", "capture_windows"}
    /\ last.result = ResultErr

(***************************************************************************)
(* C21.  Fatal startup failures: when the capture_topology or the          *)
(* capture_windows call of run() returns Err, run() returns the error: no  *)
(* raw handler is bound, no hook is installed, no table entry is recorded, *)
(* the message loop is never entered and the program takes no further      *)
(* step.                                                                   *)
(***************************************************************************)
FatalStartup ==
    StartupCallFailed
    => /\ pc = "failed"
       /\ ~raw_handler
       /\ hooks = {}
       /\ \A t \in Threads : event_table[t] = <<>>
       /\ registered = <<>>
       /\ hook_thread = <<>>
       /\ events = 0
       /\ ~ENABLED Next

\* The window enumeration of the startup pass failed after the topology had
\* been captured and made active.
FatalStartupWitness ==
    /\ last.op = "capture_windows"
    /\ last.result = ResultErr
    /\ pc = "failed"
    /\ active_topology # 0
    /\ topology # {}

\* The id table topology holds for the monitor configuration mons, in a set:
\* empty when the configuration has no row.
FingerprintOf(tbl, mons) ==
    {r.id : r \in {q \in tbl : q.data = TopologyToBson(RectSequence(mons))}}

(***************************************************************************)
(* C22.  Every record is written under the topology id of the monitor      *)
(* configuration in effect when the placement was read: in every step of   *)
(* the program, each REPLACE it executes carries the id that table         *)
(* topology holds for the monitors in effect during that step.             *)
(***************************************************************************)
CaptureUnderEffectiveTopologyStep ==
    monitors' = monitors
    => \A k \in DOMAIN last'.writes :
          last'.writes[k].topology \in FingerprintOf(topology', monitors')

CaptureUnderEffectiveTopology == [][CaptureUnderEffectiveTopologyStep]_vars

(***************************************************************************)
(* C23.  No notification is lost in the registration gap: every            *)
(* notification dispatched for a live hook, on the thread that installed   *)
(* it, finds an entry in that thread's table and invokes, once, the        *)
(* callback of the registration on that thread that last returned the      *)
(* token, although SetWinEventHook runs before the table insertion.        *)
(***************************************************************************)
NoLostNotification ==
    last.op = "event_cb"
    => /\ <<last.thread, last.tokens[1]>> \in DOMAIN registered
       /\ last.invoked = <<Invocation(registered[<<last.thread, last.tokens[1]>>],
                                      last.args[1], last.args[2])>>

\* A notification for a live hook was dispatched on its thread and invoked
\* the callback while the other thread was inside a registration, between
\* its SetWinEventHook call and its table insertion, holding a live hook
\* that has no table entry yet.
NoLostNotificationWitness ==
    /\ last.op = "event_cb"
    /\ last.invoked # <<>>
    /\ \E t \in Threads \ {last.thread} :
          /\ pc[t].at = "register"
          /\ \E i \in DOMAIN pc[t].tokens :
                /\ pc[t].tokens[i] \in hooks
                /\ hook_thread[pc[t].tokens[i]] = t
                /\ pc[t].tokens[i] \notin DOMAIN event_table[t]

\* This step is an on_raw_event(WM_DISPLAYCHANGE) whose capture_topology
\* returned Err.
DisplayChangeFailed ==
    /\ events' = events + 1
    /\ last'.op = "on_raw_event(WM_DISPLAYCHANGE)"
    /\ issued' = issued

(***************************************************************************)
(* C24.  When capture_topology fails inside the WM_DISPLAYCHANGE arm, the  *)
(* active topology keeps its value, no window is visited, looked up or     *)
(* placed, tables topology and appwindow are unchanged, and the handler    *)
(* returns None to the message loop with the raw handler and the hooks     *)
(* still in place.                                                         *)
(***************************************************************************)
FailedDisplayChangeStep ==
    DisplayChangeFailed
    => /\ active_topology' = active_topology
       /\ last'.visited = 0
       /\ last'.lookups = <<>>
       /\ last'.calls = <<>>
       /\ topology' = topology
       /\ appwindow' = appwindow
       /\ last'.result = "None"
       /\ pc' = "handled"
       /\ raw_handler' /\ hooks' = hooks /\ hooks' # {}

FailedDisplayChange == [][FailedDisplayChangeStep]_vars

\* A display change whose capture_topology failed has been handled: it is
\* the second event, the monitors are not those of the active topology, the
\* store holds records, and the handler returned to the message loop.
FailedDisplayChangeWitness ==
    /\ last.op = "on_raw_event(WM_DISPLAYCHANGE)"
    /\ last.result = "None"
    /\ last.status = <<>>
    /\ pc = "handled"
    /\ events = 2
    /\ appwindow # {}
    /\ active_topology \notin FingerprintOf(topology, monitors)

\* The handlers that are not the display-change arm: a window event hook,
\* and a raw message other than WM_DISPLAYCHANGE.
OtherHandlers ==
    {"on_wnd_event", "on_raw_event(WM_WTSSESSION_CHANGE)", "on_raw_event"}

(***************************************************************************)
(* C25.  active_topology is written only by the startup capture_topology   *)
(* and by the WM_DISPLAYCHANGE arm: a window event hook, and every raw     *)
(* message other than WM_DISPLAYCHANGE, WM_WTSSESSION_CHANGE included,     *)
(* leave it unchanged and make no lookup and no SetWindowPlacement call;   *)
(* the raw messages change neither table.                                  *)
(***************************************************************************)
ActiveTopologyWritersStep ==
    /\ active_topology' # active_topology
       => last'.op \in {"capture_topology", "on_raw_event(WM_DISPLAYCHANGE)"}
    /\ (events' = events + 1 /\ last'.op \in OtherHandlers)
       => /\ active_topology' = active_topology
          /\ last'.calls = <<>>
          /\ last'.lookups = <<>>
          /\ topology' = topology
    /\ (events' = events + 1 /\ last'.op \in OtherHandlers \ {"on_wnd_event"})
       => (appwindow' = appwindow /\ last'.result = "None")

ActiveTopologyWriters == [][ActiveTopologyWritersStep]_vars

\* The session-change message has been handled while the monitors in effect
\* are not those of the active topology and the store holds records.
ActiveTopologyWritersWitness ==
    /\ last.op = "on_raw_event(WM_WTSSESSION_CHANGE)"
    /\ pc = "handled"
    /\ appwindow # {}
    /\ active_topology # 0
    /\ active_topology \notin FingerprintOf(topology, monitors)

\* The record table appwindow holds for a key: what a lookup of it returns.
RecordOf(tbl, key) == SelectDisp(tbl, key[1], key[2], key[3], key[4])

\* The key of a REPLACE logged as w.
WriteKey(w) == Key(w.topology, w.path, w.class, w.title)

\* This step is a handler or a startup pass logged as one of ops.
StepOf(ops) == last' # last /\ last'.op \in ops

(***************************************************************************)
(* C26.  Restore is read-only on the stores and capture is single-key: a   *)
(* display-change step leaves table appwindow unchanged and adds to table  *)
(* topology at most the row capture_topology inserted for the monitors;    *)
(* a window event hook leaves table topology unchanged and leaves the      *)
(* record of every captured key other than (active topology, path, class,  *)
(* title) of the window it captures as it was.                             *)
(***************************************************************************)
StoreFrameStep ==
    /\ StepOf({"on_raw_event(WM_DISPLAYCHANGE)"})
       => /\ appwindow' = appwindow
          /\ topology' \ topology \subseteq
                {r \in topology' : r.data = TopologyToBson(RectSequence(monitors))}
          /\ topology \subseteq topology'
    /\ StepOf({"on_wnd_event"})
       => /\ topology' = topology
          /\ \A key \in DOMAIN captured :
                (\A k \in DOMAIN last'.writes : WriteKey(last'.writes[k]) # key)
                => RecordOf(appwindow', key) = RecordOf(appwindow, key)

StoreFrame == [][StoreFrameStep]_vars

\* The primary keys of the rows of table appwindow.
KeysPresent(tbl) == {PrimaryKey(r) : r \in tbl}

(***************************************************************************)
(* C27.  The stores are monotonic: no step removes or renumbers a row of   *)
(* table topology, every id a capture_topology call has returned still     *)
(* names the row of the content it was returned for, and the set of        *)
(* primary keys of table appwindow never shrinks: every key that has been  *)
(* captured still has a record.                                            *)
(***************************************************************************)
MonotonicStoresStep ==
    /\ topology \subseteq topology'
    /\ \A i \in DOMAIN issued' :
          /\ [id |-> issued'[i].id, data |-> issued'[i].data] \in topology'
          /\ \A j \in DOMAIN issued' :
                issued'[j].data = issued'[i].data => issued'[j].id = issued'[i].id
    /\ KeysPresent(appwindow) \subseteq KeysPresent(appwindow')
    /\ \A key \in DOMAIN captured' : RecordOf(appwindow', key) # {}

MonotonicStores == [][MonotonicStoresStep]_vars

\* The monitors are back to a configuration fingerprinted before, with
\* another one in between; the third capture returned the id of the first,
\* and the store holds records under both ids.
MonotonicStoresWitness ==
    /\ Len(issued) = 3
    /\ issued[1].data = issued[3].data
    /\ issued[1].id = issued[3].id
    /\ issued[2].id # issued[1].id
    /\ \E r, q \in appwindow : r.topology = issued[1].id /\ q.topology = issued[2].id

\* The callbacks the tables keep alive: those held by at least one entry.
CallbacksAlive(table) ==
    UNION {{table[t][h] : h \in DOMAIN table[t]} : t \in Threads}

\* The number of entries of the table of a thread.
Entries(table, t) == Cardinality(DOMAIN table[t])

\* unregister leaves every table as it was, and no step removes an entry.
EntriesKept ==
    /\ last'.op = "unregister" => event_table' = event_table
    /\ \A t \in Threads :
          /\ DOMAIN event_table[t] \subseteq DOMAIN event_table'[t]
          /\ Entries(event_table', t) >= Entries(event_table, t)

(***************************************************************************)
(* C28 as stated.  unregister changes only the OS hook: the tables are the *)
(* same before and after it, no operation removes a table entry, and       *)
(* neither the number of entries of a thread nor the number of callbacks   *)
(* the entries keep alive ever decreases.                                  *)
(***************************************************************************)
TableNeverShrinksStep ==
    /\ EntriesKept
    /\ Cardinality(CallbacksAlive(event_table')) >= Cardinality(CallbacksAlive(event_table))

TableNeverShrinks == [][TableNeverShrinksStep]_vars

(***************************************************************************)
(* C28, amended.  unregister changes only the OS hook: the tables are the  *)
(* same before and after it, no operation removes a table entry and the    *)
(* number of entries of a thread never decreases; an entry stops holding   *)
(* its callback only when a registration on its thread returns its token   *)
(* again and replaces it.                                                  *)
(***************************************************************************)
TableEntriesNeverRemovedStep ==
    /\ EntriesKept
    /\ \A t \in Threads : \A h \in DOMAIN event_table[t] :
          event_table'[t][h] # event_table[t][h]
          => /\ last'.op \in {"register", "register_ranges"}
             /\ last'.thread = t
             /\ \E i \in DOMAIN last'.tokens : last'.tokens[i] = h
             /\ event_table'[t][h] = last'.cb

TableEntriesNeverRemoved == [][TableEntriesNeverRemovedStep]_vars

\* unregister has removed an OS hook whose table entry, one of two of the
\* thread, still holds its callback.
TableEntriesNeverRemovedWitness ==
    /\ last.op = "unregister"
    /\ last.tokens[1] \notin hooks
    /\ last.tokens[1] \in DOMAIN event_table[last.thread]
    /\ Entries(event_table, last.thread) = 2
    /\ event_table[last.thread][last.tokens[1]] \in CallbacksAlive(event_table)

(***************************************************************************)
(* C29.  The registration table is never mutated while a callback is being *)
(* dispatched: event_cb holds a shared borrow of the table of its thread   *)
(* from its entry until the callback has returned, no step taken while the *)
(* borrow is held changes the table, and no borrow_mut ever meets a held   *)
(* borrow: the program never panics with a borrow error.                   *)
(***************************************************************************)
NoMutationDuringDispatchStep ==
    /\ pc' # PanicBorrowMut
    /\ pc' \in {"event_cb", "returned"} => borrows'[MainThread] = 1
    /\ pc' \notin {"event_cb", "returned", "panicked"} => borrows'[MainThread] = 0
    /\ borrows[MainThread] > 0 => event_table' = event_table
    /\ event_table' # event_table => (borrows[MainThread] = 0 /\ borrows'[MainThread] = 0)

NoMutationDuringDispatch == [][NoMutationDuringDispatchStep]_vars

\* The callback has run under the borrow of event_cb and captured the
\* window; the table still holds the entries of both hooks.
NoMutationDuringDispatchWitness ==
    /\ pc = "returned"
    /\ borrows[MainThread] = 1
    /\ last.op = "callback"
    /\ last.cb = ResultOk
    /\ appwindow # {}
    /\ DOMAIN event_table[MainThread] = {evt_hooks[1], evt_hooks[2]}

====
